---- MODULE Spec2Model ----
(***************************************************************************)
(* A model of paperoni's Database (src/paperoni/db/database.py): the       *)
(* acquire engine with its identity cache, the transaction scope, the      *)
(* history log written by import_all and the replay of that log; of the   *)
(* address tags, the EquivalenceGroups and squash_text of                  *)
(* src/paperoni/tools.py; of the paged query of Semantic Scholar           *)
(* (src/paperoni/sources/scrapers/semantic_scholar.py); of Refiner.query   *)
(* (src/paperoni/sources/scrapers/refine.py); and of the upload loop       *)
(* (src/src/paperoni/mila_upload.py).                                      *)
(***************************************************************************)
EXTENDS Integers, Sequences, FiniteSets, TLC

VARIABLES
    db,       \* the rows committed to the SQLite file (a bag: row -> count)
    session,  \* self.session: [open, db]; db is what the open session sees
    cache,    \* self.cache: address -> row returned by _acquire
    history,  \* the history files: path -> sequence of lines
    pc,       \* position of the running operation ("idle" between calls)
    batch,    \* import_all: xs; replay: lines (of the file being replayed)
    idx,      \* index of the next element of batch to acquire
    files,    \* replay: the history_files not yet replayed
    args,     \* replay: the call's [root, before, after]
    nops,     \* number of operations started so far
    trace,    \* the events of the open transaction, oldest first
    entry,    \* [db, cache] as they were when the open transaction began
    last,     \* the entity of the latest acquire call, if it returned
    representatives,  \* EquivalenceGroups.representatives (a dict, in key order)
    names,            \* EquivalenceGroups.names
    classes,          \* EquivalenceGroups.classes
    declared,         \* the classes of the pairs given to equiv so far
    result,           \* what the latest groups() or iteration gave
    uuid,             \* an address, as bytes: what tag_uuid last returned
    status,           \* the status tag_uuid was last called with
    retired,          \* the addresses merged away so far
    ss,               \* a Semantic Scholar query: its arguments and progress
    text,             \* a string, and what squash_text made of it so far
    io,               \* import_all: the files opened to append, the empty calls
    twin,             \* a second EquivalenceGroups given the pairs of the first
    rf,               \* a call of Refiner.query: its refiners and their outcomes
    up                \* a run of the upload loop: the papers left, the blocks sent

\* The Database and its files.
dbvars == <<db, session, cache, history, pc, batch, idx, files, args, nops,
            trace, entry, last>>

\* The EquivalenceGroups object (src/paperoni/tools.py).
eqvars == <<representatives, names, classes, declared, result>>

\* An address and its tag (tag_uuid, get_uuid_tag in src/paperoni/tools.py).
tagvars == <<uuid, status>>

\* The addresses retired by the merges applied to the store.
mergevars == <<retired>>

\* A query of Semantic Scholar (sources/scrapers/semantic_scholar.py).
queryvars == <<ss>>

\* A text and its squashed form (squash_text in src/paperoni/tools.py).
textvars == <<text>>

\* What import_all did beside its transaction (database.py, lines 211-220).
iovars == <<io>>

\* Two EquivalenceGroups objects given the same pairs.
ordervars == <<twin>>

\* Refiner.query (sources/scrapers/refine.py).
refinevars == <<rf>>

\* The upload loop (mila_upload.py).
uploadvars == <<up>>

\* The runs of the tools that use neither the Database nor its files.
runvars == <<ordervars, refinevars, uploadvars>>

\* The objects beside the Database.
objects == <<eqvars, tagvars, mergevars, queryvars, textvars, runvars>>

\* What the operations of the Database leave alone, import_all apart.
aux == <<objects, iovars>>

vars == <<dbvars, aux>>

(***************************************************************************)
(* Bounds of the model.                                                    *)
(***************************************************************************)
MaxOps == 3

None == "None"

(***************************************************************************)
(* Rows.  Every table row is [tbl, key, val, ref]: key is the primary key  *)
(* (the address for an entity row, the composite of the addresses for an   *)
(* association row), val the non-key columns, ref a foreign key held in a  *)
(* non-key column (release.venue_id).                                      *)
(***************************************************************************)
Row(tbl, key, val, ref) == [tbl |-> tbl, key |-> key, val |-> val, ref |-> ref]

NoneRow == Row(None, <<None>>, 0, None)

EmptyDb == [r \in {} |-> 0]

HasKey(d, tbl, key) == \E r \in DOMAIN d : r.tbl = tbl /\ r.key = key

\* INSERT of one more row, whatever the table holds.
AddRow(d, row) ==
    [r \in DOMAIN d \cup {row} |->
        IF r = row THEN (IF row \in DOMAIN d THEN d[row] + 1 ELSE 1) ELSE d[r]]

\* session.merge(row): insert-or-update by primary key.
Upsert(d, row) ==
    LET keep == {r \in DOMAIN d : ~(r.tbl = row.tbl /\ r.key = row.key)}
    IN  [r \in keep \cup {row} |-> IF r = row THEN 1 ELSE d[r]]

\* insert(...).on_conflict_do_nothing()
InsertIgnore(d, row) ==
    IF HasKey(d, row.tbl, row.key) THEN d ELSE AddRow(d, row)

(***************************************************************************)
(* Entities (paperoni.sources.model).  id is the address hashid() returns, *)
(* val stands for the fields that do not enter the address.                *)
(***************************************************************************)
Institution(id, val) == [kind |-> "Institution", id |-> id, val |-> val]

Topic(id, val) == [kind |-> "Topic", id |-> id, val |-> val]

Venue(id, val, links) ==
    [kind |-> "Venue", id |-> id, val |-> val, links |-> links]

Release(id, val, venue) ==
    [kind |-> "Release", id |-> id, val |-> val, venue |-> venue]

Role(institution, role) == [institution |-> institution, role |-> role]

Author(id, val, affiliations, links, aliases, roles) ==
    [kind |-> "Author", id |-> id, val |-> val, affiliations |-> affiliations,
     links |-> links, aliases |-> aliases, roles |-> roles]

AuthorQuery(author_id, author) ==
    [kind |-> "AuthorQuery", author_id |-> author_id, author |-> author]

Paper(id, val, authors, releases, topics, links, scrapers) ==
    [kind |-> "Paper", id |-> id, val |-> val, authors |-> authors,
     releases |-> releases, topics |-> topics, links |-> links,
     scrapers |-> scrapers]

\* A value that is none of the kinds _acquire matches.
Other(id) == [kind |-> "Other", id |-> id]

\* x.hashid(): None for the kind that has no identity of its own.
hashid(x) == IF x.kind = "AuthorQuery" THEN None ELSE x.id

(***************************************************************************)
(* acquire / _acquire, threaded through st = [sess, db, cache, ok, ret,    *)
(* trace]: sess says whether self.session is a Session, db is what that    *)
(* session sees, ok turns FALSE when an exception is propagating, ret is   *)
(* the value last returned, trace the events so far.                       *)
(***************************************************************************)
Event(ev, row) == [ev |-> ev, row |-> row]

\* `pass` in place of `raise`: the call returns.
raise_ignored(st) == st

\* raise TypeError(...) (line 208); any exception that propagates
Raise(st) == [st EXCEPT !.ok = FALSE, !.trace = Append(@, Event("raise", NoneRow))]

\* session.add(row) in place of session.merge(row): no lookup by primary key.
merge_as_add(st, row) ==
    IF ~st.ok THEN st
    ELSE IF ~st.sess THEN Raise(st)
    ELSE [st EXCEPT !.db = AddRow(@, row),
                    !.trace = Append(@, Event("merge", row))]

\* self.session.merge(row); AttributeError when self.session is None.
merge(st, row) ==
    IF ~st.ok THEN st
    ELSE IF ~st.sess THEN Raise(st)
    ELSE [st EXCEPT !.db = Upsert(@, row),
                    !.trace = Append(@, Event("merge", row))]

\* The insert without on_conflict_do_nothing, into a table with no key.
execute_plain_insert(st, row) ==
    IF ~st.ok THEN st
    ELSE IF ~st.sess THEN Raise(st)
    ELSE [st EXCEPT !.db = AddRow(@, row),
                    !.trace = Append(@, Event("execute", row))]

\* self.session.execute(insert(...).values(...).on_conflict_do_nothing())
execute(st, row) ==
    IF ~st.ok THEN st
    ELSE IF ~st.sess THEN Raise(st)
    ELSE [st EXCEPT !.db = InsertIgnore(@, row),
                    !.trace = Append(@, Event("execute", row))]

Return(st, row) == IF ~st.ok THEN st ELSE [st EXCEPT !.ret = row]

RECURSIVE acquire(_, _)
RECURSIVE _acquire(_, _)
RECURSIVE PaperAuthors(_, _, _, _)
RECURSIVE PaperAffiliations(_, _, _, _, _)
RECURSIVE PaperReleases(_, _, _, _)
RECURSIVE PaperTopics(_, _, _, _)
RECURSIVE PaperLinks(_, _, _, _)
RECURSIVE PaperScrapers(_, _, _, _)
RECURSIVE VenueLinks(_, _, _, _)
RECURSIVE AuthorLinks(_, _, _, _)
RECURSIVE AuthorAliases(_, _, _, _)
RECURSIVE AuthorRoles(_, _, _, _)

\* for affiliation in author.affiliations (lines 80-91)
PaperAffiliations(st, pp, aa, affiliations, j) ==
    IF ~st.ok \/ j > Len(affiliations) THEN st
    ELSE LET s1 == acquire(st, affiliations[j])
             s2 == execute(s1, Row("paper_author_institution",
                                   <<pp.key[1], aa.key[1], s1.ret.key[1]>>,
                                   0, None))
         IN  PaperAffiliations(s2, pp, aa, affiliations, j + 1)

\* for i, author in enumerate(paper.authors) (lines 71-91)
PaperAuthors(st, pp, authors, i) ==
    IF ~st.ok \/ i > Len(authors) THEN st
    ELSE LET s1 == acquire(st, authors[i])
             aa == s1.ret
             s2 == merge(s1, Row("paper_author", <<pp.key[1], aa.key[1]>>,
                                 i - 1, None))
             s3 == PaperAffiliations(s2, pp, aa, authors[i].affiliations, 1)
         IN  PaperAuthors(s3, pp, authors, i + 1)

\* for release in paper.releases (lines 93-100)
PaperReleases(st, pp, releases, i) ==
    IF ~st.ok \/ i > Len(releases) THEN st
    ELSE LET s1 == acquire(st, releases[i])
             s2 == execute(s1, Row("paper_release",
                                   <<pp.key[1], s1.ret.key[1]>>, 0, None))
         IN  PaperReleases(s2, pp, releases, i + 1)

\* for topic in paper.topics (lines 102-109)
PaperTopics(st, pp, topics, i) ==
    IF ~st.ok \/ i > Len(topics) THEN st
    ELSE LET s1 == acquire(st, topics[i])
             s2 == execute(s1, Row("paper_topic",
                                   <<pp.key[1], s1.ret.key[1]>>, 0, None))
         IN  PaperTopics(s2, pp, topics, i + 1)

\* for link in paper.links (lines 111-117)
PaperLinks(st, pp, links, i) ==
    IF ~st.ok \/ i > Len(links) THEN st
    ELSE PaperLinks(merge(st, Row("paper_link", <<pp.key[1], links[i]>>, 0, None)),
                    pp, links, i + 1)

\* for scraper in paper.scrapers (lines 119-123)
PaperScrapers(st, pp, scrapers, i) ==
    IF ~st.ok \/ i > Len(scrapers) THEN st
    ELSE PaperScrapers(merge(st, Row("paper_scraper", <<pp.key[1], scrapers[i]>>,
                                     0, None)),
                       pp, scrapers, i + 1)

\* for link in venue.links (lines 169-175)
VenueLinks(st, vv, links, i) ==
    IF ~st.ok \/ i > Len(links) THEN st
    ELSE VenueLinks(merge(st, Row("venue_link", <<vv.key[1], links[i]>>, 0, None)),
                    vv, links, i + 1)

\* for link in author.links (lines 180-186)
AuthorLinks(st, author_id, links, i) ==
    IF ~st.ok \/ i > Len(links) THEN st
    ELSE AuthorLinks(merge(st, Row("author_link", <<author_id, links[i]>>, 0, None)),
                     author_id, links, i + 1)

\* for alias in author.aliases (lines 188-193)
AuthorAliases(st, author_id, aliases, i) ==
    IF ~st.ok \/ i > Len(aliases) THEN st
    ELSE AuthorAliases(merge(st, Row("author_alias", <<author_id, aliases[i]>>,
                                     0, None)),
                       author_id, aliases, i + 1)

\* for role in author.roles (lines 195-205)
AuthorRoles(st, author_id, roles, i) ==
    IF ~st.ok \/ i > Len(roles) THEN st
    ELSE LET s1 == acquire(st, roles[i].institution)
             s2 == merge(s1, Row("author_institution",
                                 <<author_id, s1.ret.key[1]>>,
                                 roles[i].role, None))
         IN  AuthorRoles(s2, author_id, roles, i + 1)

AcquirePaper(st, paper) ==
    LET pp == Row("paper", <<hashid(paper)>>, paper.val, None)
        s1 == merge(st, pp)
        s2 == PaperAuthors(s1, pp, paper.authors, 1)
        s3 == PaperReleases(s2, pp, paper.releases, 1)
        s4 == PaperTopics(s3, pp, paper.topics, 1)
        s5 == PaperLinks(s4, pp, paper.links, 1)
        s6 == PaperScrapers(s5, pp, paper.scrapers, 1)
    IN  Return(s6, pp)

\* The Author case calling acquire on its AuthorQuery a second time.
AcquireAuthorTwice(st, author) ==
    LET aa == Row("author", <<hashid(author)>>, author.val, None)
        s1 == merge(st, aa)
        s2 == acquire(s1, AuthorQuery(aa.key[1], author))
        s3 == acquire(s2, AuthorQuery(aa.key[1], author))
    IN  Return(s3, aa)

AcquireAuthor(st, author) ==
    LET aa == Row("author", <<hashid(author)>>, author.val, None)
        s1 == merge(st, aa)
        s2 == acquire(s1, AuthorQuery(aa.key[1], author))
    IN  Return(s2, aa)

AcquireInstitution(st, institution) ==
    LET aa == Row("institution", <<hashid(institution)>>, institution.val, None)
    IN  Return(merge(st, aa), aa)

\* The release row written before its venue is acquired.
AcquireReleaseFirst(st, release) ==
    LET rr == Row("release", <<hashid(release)>>, release.val,
                  hashid(release.venue))
        s1 == merge(st, rr)
        s2 == acquire(s1, release.venue)
    IN  Return(s2, rr)

AcquireRelease(st, release) ==
    LET s1 == acquire(st, release.venue)
        rr == Row("release", <<hashid(release)>>, release.val, s1.ret.key[1])
    IN  Return(merge(s1, rr), rr)

AcquireTopic(st, topic) ==
    LET tt == Row("topic", <<hashid(topic)>>, topic.val, None)
    IN  Return(merge(st, tt), tt)

AcquireVenue(st, venue) ==
    LET vv == Row("venue", <<hashid(venue)>>, venue.val, None)
        s1 == merge(st, vv)
    IN  Return(VenueLinks(s1, vv, venue.links, 1), vv)

AcquireAuthorQuery(st, q) ==
    LET s1 == AuthorLinks(st, q.author_id, q.author.links, 1)
        s2 == AuthorAliases(s1, q.author_id, q.author.aliases, 1)
        s3 == AuthorRoles(s2, q.author_id, q.author.roles, 1)
    IN  Return(s3, NoneRow)

\* def _acquire(self, x): match x (lines 57-208)
_acquire(st, x) ==
    LET s0 == [st EXCEPT !.trace =
                  Append(@, Event("_acquire", Row(x.kind, <<hashid(x)>>, 0, None)))]
    IN  CASE x.kind = "Paper" -> AcquirePaper(s0, x)
          [] x.kind = "Author" -> AcquireAuthor(s0, x)
          [] x.kind = "Institution" -> AcquireInstitution(s0, x)
          [] x.kind = "Release" -> AcquireRelease(s0, x)
          [] x.kind = "Topic" -> AcquireTopic(s0, x)
          [] x.kind = "Venue" -> AcquireVenue(s0, x)
          [] x.kind = "AuthorQuery" -> AcquireAuthorQuery(s0, x)
          [] OTHER -> Raise(s0)

\* acquire without its test of the cache: _acquire runs at every call.
acquire_uncached(st, x) ==
    IF ~st.ok THEN st
    ELSE LET hid == hashid(x)
             s1 == _acquire(st, x)
         IN  IF s1.ok
             THEN [s1 EXCEPT !.cache =
                      [h \in DOMAIN s1.cache \cup {hid} |->
                          IF h = hid THEN s1.ret ELSE s1.cache[h]]]
             ELSE s1

\* def acquire(self, x) (lines 50-55)
acquire(st, x) ==
    IF ~st.ok THEN st
    ELSE LET hid == hashid(x)
         IN  IF hid = None \/ hid \notin DOMAIN st.cache
             THEN LET s1 == _acquire(st, x)
                  IN  IF s1.ok
                      THEN [s1 EXCEPT !.cache =
                               [h \in DOMAIN s1.cache \cup {hid} |->
                                   IF h = hid THEN s1.ret ELSE s1.cache[h]]]
                      ELSE s1
             ELSE [st EXCEPT !.ret = st.cache[hid],
                             !.trace = Append(@, Event("hit", st.cache[hid]))]

(***************************************************************************)
(* The entity trees offered to the Database.  PA and PB are two papers     *)
(* that share the author address a1 (with different links, aliases and     *)
(* roles); PX holds a child of an unsupported kind after a good one; OT    *)
(* is itself of an unsupported kind.                                       *)
(***************************************************************************)
I1 == Institution("i1", 1)

V1 == Venue("v1", 1, <<"vl1">>)

R1 == Release("r1", 1, V1)

T1 == Topic("t1", 1)

A1x == Author("a1", 1, <<I1>>, <<"al1">>, <<>>, <<>>)

A1y == Author("a1", 1, <<>>, <<"al2">>, <<"as1">>, <<Role(I1, 1)>>)

PA == Paper("p1", 1, <<A1x>>, <<R1>>, <<>>, <<>>, <<>>)

PB == Paper("p2", 1, <<A1y>>, <<>>, <<T1>>, <<"pl1">>, <<"s1">>)

PX == Paper("p3", 1, <<>>, <<>>, <<T1, Other("o1")>>, <<>>, <<>>)

OT == Other("o2")

AQ == AuthorQuery("a1", A1y)

Trees == {PA, PB, PX, OT, AQ}

\* The batches import_all is called with: xs, a non-empty list of trees.
Batches(n) == UNION {[1..k -> Trees] : k \in 1..n}

\* What callers offer: an AuthorQuery names an author that the store d holds
\* (it attaches links, aliases and roles to an author acquired before).
Offered(x, d) == x.kind = "AuthorQuery" => HasKey(d, "author", <<x.author_id>>)

(***************************************************************************)
(* History records (paperoni.sources.model: tagged_json / from_dict).      *)
(***************************************************************************)
Kinds == {"Paper", "Author", "Institution", "Release", "Topic", "Venue",
          "AuthorQuery"}

\* x.tagged_json(): the type tag and the entity's own fields.
tagged_json(x) == [tag |-> x.kind, data |-> x]

\* A line from_dict(json.loads(l)) cannot parse.
Garbage == [tag |-> "?", data |-> NoneRow]

Parses(l) == l.tag \in Kinds /\ l.data.kind = l.tag

from_dict(l) == l.data

(***************************************************************************)
(* The history directory.  A name is a string, modelled as a tuple of      *)
(* character codes; a path is the tuple of the names from the root down.   *)
(***************************************************************************)
HistoryRoot == <<<<0>>>>

Dirs == {HistoryRoot, HistoryRoot \o <<<<2>>>>}

FilePaths == {HistoryRoot \o <<<<1, 1>>>>,
              HistoryRoot \o <<<<1, 2>>>>,
              HistoryRoot \o <<<<2>>, <<1, 1>>>>,
              HistoryRoot \o <<<<2>>, <<3>>>>}

\* config.history_file
HistoryFile == HistoryRoot \o <<<<1, 1>>>>

name(p) == p[Len(p)]

is_dir(p) == p \in Dirs

iterdir(p) ==
    {q \in Dirs \cup FilePaths : Len(q) = Len(p) + 1 /\ SubSeq(q, 1, Len(p)) = p}

\* Python's < on strings.
RECURSIVE StrLess(_, _)
StrLess(a, b) ==
    IF b = <<>> THEN FALSE
    ELSE IF a = <<>> THEN TRUE
    ELSE IF Head(a) # Head(b) THEN Head(a) < Head(b)
    ELSE StrLess(Tail(a), Tail(b))

\* x.name[: len(bound)]
Prefix(s, n) == SubSeq(s, 1, IF n < Len(s) THEN n ELSE Len(s))

\* Path.__lt__: the parts compared in order.
RECURSIVE PathLess(_, _)
PathLess(p, q) ==
    IF q = <<>> THEN FALSE
    ELSE IF p = <<>> THEN TRUE
    ELSE IF Head(p) # Head(q) THEN StrLess(Head(p), Head(q))
    ELSE PathLess(Tail(p), Tail(q))

\* The listing taken in descending order.
RECURSIVE sorted_descending(_)
sorted_descending(paths) ==
    IF paths = {} THEN <<>>
    ELSE LET m == CHOOSE p \in paths : \A q \in paths \ {p} : PathLess(q, p)
         IN  <<m>> \o sorted_descending(paths \ {m})

\* list(sorted(paths))
RECURSIVE sorted(_)
sorted(paths) ==
    IF paths = {} THEN <<>>
    ELSE LET m == CHOOSE p \in paths : \A q \in paths \ {p} : PathLess(p, q)
         IN  <<m>> \o sorted(paths \ {m})

\* def _accumulate_history_files(self, x, before, after, results)
\* (lines 222-246); a bound of <<>> is None (or ""), which `if before:` skips.
RECURSIVE AccumulatePath(_, _, _, _)
RECURSIVE AccumulateList(_, _, _, _)
AccumulateList(paths, before, after, results) ==
    IF paths = <<>> THEN results
    ELSE AccumulateList(Tail(paths), before, after,
                        AccumulatePath(Head(paths), before, after, results))

AccumulatePath(pth, before, after, results) ==
    IF is_dir(pth)
    THEN LET paths == sorted(iterdir(pth))
             p1 == IF before # <<>>
                   THEN SelectSeq(paths,
                            LAMBDA x : StrLess(Prefix(name(x), Len(before)), before))
                   ELSE paths
             p2 == IF after # <<>>
                   THEN SelectSeq(p1,
                            LAMBDA x : StrLess(after, Prefix(name(x), Len(after))))
                   ELSE p1
         IN  AccumulateList(p2, before, after, results)
    ELSE Append(results, pth)

\* The bounds applied to the name of the root argument as well.
accumulate_filtering_root(x, before, after, results) ==
    IF /\ before # <<>> => StrLess(Prefix(name(x), Len(before)), before)
       /\ after # <<>> => StrLess(after, Prefix(name(x), Len(after)))
    THEN AccumulatePath(x, before, after, results)
    ELSE results

_accumulate_history_files(x, before, after, results) ==
    AccumulatePath(x, before, after, results)

(***************************************************************************)
(* Address tags (src/paperoni/tools.py, lines 8 and 154-170).  An address  *)
(* is a bytes value: a non-empty sequence of numbers of 0..255.            *)
(***************************************************************************)
MaxRest == 1

_uuid_tags == <<"transient", "canonical">>

Statuses == {_uuid_tags[i] : i \in DOMAIN _uuid_tags}

\* The bytes after the first: none, or up to MaxRest of 0 and 255.
Rests == UNION {[1..k -> {0, 255}] : k \in 0..MaxRest}

Uuids == {<<b>> \o r : b \in 0..255, r \in Rests}

\* n | 128, n & 127 and n & 128 on a byte, and x >> 7.
Or128(n) == IF (n \div 128) % 2 = 1 THEN n ELSE n + 128

And127(n) == n % 128

And128(n) == ((n \div 128) % 2) * 128

Shr7(x) == x \div 128

\* _uuid_tags.index(status), counted from 0
index(s) == (CHOOSE i \in DOMAIN _uuid_tags : _uuid_tags[i] = s) - 1

\* tag_uuid clearing the whole first byte of a transient address.
tag_uuid_zeroing(u, s) ==
    IF index(s) # 0 THEN [u EXCEPT ![1] = Or128(@)] ELSE [u EXCEPT ![1] = 0]

\* tag_uuid that sets the bit and never clears it.
tag_uuid_set_only(u, s) ==
    IF index(s) # 0 THEN [u EXCEPT ![1] = Or128(@)] ELSE u

\* def tag_uuid(uuid, status) (lines 154-161)
tag_uuid(u, s) ==
    LET bit == index(s)
    IN  IF bit # 0
        THEN [u EXCEPT ![1] = Or128(@)]
        ELSE [u EXCEPT ![1] = And127(@)]

\* def get_uuid_tag(uuid) (lines 164-165)
get_uuid_tag(u) == _uuid_tags[Shr7(And128(u[1])) + 1]

\* def is_canonical_uuid(uuid) (lines 168-170)
is_canonical_uuid(u) == And128(u[1]) # 0

\* No address tagged yet.
InitTags == uuid = <<>> /\ status = None

(***************************************************************************)
(* EquivalenceGroups (src/paperoni/tools.py, lines 173-217).  An address   *)
(* is a number of 1..MaxAddr; a dict is the sequence of its <<key, value>> *)
(* items in insertion order, which is the order Python iterates it in.     *)
(***************************************************************************)
MaxAddr == 3

Addrs == 1..MaxAddr

\* The lists equiv_all is called with: one id, or a first id and another
\* (a longer list repeats equiv(a, b) with the same a).
IdLists == {<<a>> : a \in Addrs} \cup {<<a, b>> : a, b \in Addrs}

Keys(d) == {d[i][1] : i \in DOMAIN d}

\* d.get(k, None); the None of a dict of addresses is written 0, which is
\* false as None is and is no address.
Get(d, k) ==
    IF k \in Keys(d)
    THEN d[CHOOSE i \in DOMAIN d : d[i][1] = k][2]
    ELSE 0

\* d[k] = v: a key the dict holds keeps its place, a new one goes last.
Set(d, k, v) ==
    IF k \in Keys(d)
    THEN [i \in DOMAIN d |-> IF d[i][1] = k THEN <<k, v>> ELSE d[i]]
    ELSE Append(d, <<k, v>>)

\* bool(x) of what .get returned.
Truthy(x) == x # 0

\* follow recording an address it does not hold as its own representative.
RECURSIVE follow_adding(_, _)
follow_adding(rep, a) ==
    LET b == Get(rep, a)
    IN  IF Truthy(b)
        THEN IF a = b
             THEN [rep |-> rep, res |-> a]
             ELSE LET f == follow_adding(rep, b)
                  IN  [rep |-> Set(f.rep, a, f.res), res |-> f.res]
        ELSE [rep |-> Set(rep, a, a), res |-> a]

\* def follow(self, a) (lines 196-203): [rep, res], rep the dict afterwards.
RECURSIVE follow(_, _)
follow(rep, a) ==
    LET b == Get(rep, a)
    IN  IF Truthy(b)
        THEN IF a = b
             THEN [rep |-> rep, res |-> a]
             ELSE LET f == follow(rep, b)
                  IN  [rep |-> Set(f.rep, a, f.res), res |-> f.res]
        ELSE [rep |-> rep, res |-> a]

\* equiv keeping the representative of b for the merged class.
equiv_under_b(rep, a, b) ==
    LET fa == follow(rep, a)
        fb == follow(fa.rep, b)
        ar == fa.res
        br == fb.res
    IN  Set(Set(Set(fb.rep, a, br), b, br), ar, br)

\* equiv without its last line: the representative of b is left as it was.
equiv_without_root(rep, a, b) ==
    LET fa == follow(rep, a)
        fb == follow(fa.rep, b)
        ar == fa.res
    IN  Set(Set(fb.rep, a, ar), b, ar)

\* def equiv(self, a, b) (lines 179-184)
equiv(rep, a, b) ==
    LET fa == follow(rep, a)
        fb == follow(fa.rep, b)
        ar == fa.res
        br == fb.res
    IN  Set(Set(Set(fb.rep, a, ar), b, ar), br, ar)

\* for b in rest: self.equiv(a, b) (lines 190-191)
RECURSIVE equiv_rest(_, _, _, _)
equiv_rest(rep, a, ids, i) ==
    IF i > Len(ids) THEN rep
    ELSE equiv_rest(equiv(rep, a, ids[i]), a, ids, i + 1)

\* The loop of lines 192-194 stopping after the first id.
set_first(d, ids, v) ==
    [x \in DOMAIN d \cup {ids[1]} |-> IF x = ids[1] THEN v ELSE d[x]]

\* for x in ids: self.names[x] = under (lines 192-194; classes likewise).
\* names and classes are read by key only: they are functions of their keys.
set_all(d, ids, v) ==
    LET xs == {ids[i] : i \in DOMAIN ids}
    IN  [x \in DOMAIN d \cup xs |-> IF x \in xs THEN v ELSE d[x]]

\* for k in self.representatives: self.follow(k) (lines 206-207)
RECURSIVE follow_all(_, _)
follow_all(rep, i) ==
    IF i > Len(rep) THEN rep ELSE follow_all(follow(rep, rep[i][1]).rep, i + 1)

\* results[v].add(k) over the items of the dict (lines 208-210)
RECURSIVE bucket(_, _, _)
bucket(rep, results, i) ==
    IF i > Len(rep) THEN results
    ELSE LET k == rep[i][1]
             v == rep[i][2]
             old == IF v \in Keys(results) THEN Get(results, v) ELSE {}
         IN  bucket(rep, Set(results, v, old \cup {k}), i + 1)

\* groups without its first loop: the keys gathered under the address each
\* is mapped to, which need not be the representative of its class.
groups_unfollowed(rep) == [rep |-> rep, results |-> bucket(rep, <<>>, 1)]

\* def groups(self) (lines 205-211): [rep, results]
groups(rep) ==
    LET r == follow_all(rep, 1)
    IN  [rep |-> r, results |-> bucket(r, <<>>, 1)]

\* def __iter__(self) (lines 213-217), run to its end by the caller:
\* what it yielded, and the exception that ended it (None: it returned).
RECURSIVE iterate(_, _, _, _, _)
iterate(results, nms, cls, i, yielded) ==
    IF i > Len(results) THEN [yielded |-> yielded, error |-> None]
    ELSE LET main == results[i][1]
             ids == results[i][2]
         IN  IF ~(Cardinality(ids) > 1)
             THEN [yielded |-> yielded, error |-> "AssertionError"]
             ELSE IF main \notin DOMAIN nms \/ main \notin DOMAIN cls
             THEN [yielded |-> yielded, error |-> "KeyError"]
             ELSE iterate(results, nms, cls, i + 1,
                          Append(yielded, [cls |-> cls[main], ids |-> ids]))

\* The classes of the least equivalence relation that holds the classes P
\* and the pair (a, b).
Join(P, a, b) ==
    LET touched == {c \in P : a \in c \/ b \in c}
    IN  (P \ touched) \cup {UNION touched \cup {a, b}}

RECURSIVE JoinRest(_, _, _, _)
JoinRest(P, a, ids, i) ==
    IF i > Len(ids) THEN P ELSE JoinRest(Join(P, a, ids[i]), a, ids, i + 1)

\* self.names = {} and self.classes = {}
NoNames == [x \in {} |-> None]

\* No groups() and no iteration since the latest equiv.
NoResult == [op |-> "none", results |-> <<>>, yielded |-> <<>>, error |-> None]

\* def __init__(self) (lines 174-177)
InitEquivalenceGroups ==
    /\ representatives = <<>>
    /\ names = NoNames
    /\ classes = NoNames
    /\ declared = {}
    /\ result = NoResult

(***************************************************************************)
(* The Semantic Scholar query (sources/scrapers/semantic_scholar.py and    *)
(* discovery/semantic_scholar.py).  The server holds `total` matches of    *)
(* the query; a result is counted, its content is not modelled.            *)
(***************************************************************************)
MaxLimit == 3

MaxTotal == 4

MaxPapers == 2

\* block_size: int = 100 and limit: int = 10000, the defaults of _list
DefaultBlockSize == 100

DefaultLimit == 10000

\* next_offset is None
NoOffset == -1

Min(a, b) == IF a < b THEN a ELSE b

\* block_size or 10000: 0 is false
OrDefault(block_size) == IF block_size = 0 THEN DefaultLimit ELSE block_size

\* self._evaluate(path, offset=next_offset, limit=n): the page of at most n
\* matches from offset on, and "next" when matches are left after it.
_evaluate(total, offset, n) ==
    [data |-> IF offset < total THEN Min(n, total - offset) ELSE 0,
     next |-> IF offset + n < total THEN offset + n ELSE NoOffset]

Versions == {"scrapers", "discovery"}

NoQuery == [pc |-> "idle", version |-> "scrapers", author |-> FALSE,
            title |-> FALSE, limit |-> 0, list_limit |-> 0, params_limit |-> 0,
            next_offset |-> NoOffset, yielded |-> 0, total |-> 0, papers |-> 0]

\* No query made yet.
InitQuery == ss = NoQuery

(***************************************************************************)
(* Text canonicalization (src/paperoni/tools.py, lines 30-48).  A string   *)
(* is the sequence of its Unicode code points.                             *)
(***************************************************************************)
MaxLen == 3

\* e, E, 1, space, hyphen, e acute, E acute, the combining acute accent,
\* o with stroke and O with stroke (letters that have no decomposition).
Chars == {101, 69, 49, 32, 45, 233, 201, 769, 248, 216}

Texts == UNION {[1..n -> Chars] : n \in 0..MaxLen}

RECURSIVE Concat(_)
Concat(parts) ==
    IF parts = <<>> THEN <<>> ELSE Head(parts) \o Concat(Tail(parts))

\* unicodedata.normalize("NFD", s): a letter with an accent becomes the
\* letter followed by the combining accent.
NFD(s) ==
    Concat([i \in DOMAIN s |->
               CASE s[i] = 233 -> <<101, 769>>
                 [] s[i] = 201 -> <<69, 769>>
                 [] OTHER -> <<s[i]>>])

\* norm.encode("ASCII", "ignore").decode("utf8")
encode_ignore(s) == SelectSeq(s, LAMBDA c : c < 128)

\* def asciiify(s) (lines 30-37)
asciiify(s) == encode_ignore(NFD(s))

\* str.lower() left out: the string goes on as it is.
lower_skipped(s) == s

\* str.lower(), on a string that is ASCII
lower(s) == [i \in DOMAIN s |-> IF s[i] \in 65..90 THEN s[i] + 32 ELSE s[i]]

\* a-z and 0-9
Alnum == (97..122) \cup (48..57)

\* re.sub(pattern=r"[^a-z0-9]+", string=txt, repl="")
sub_non_alnum(s) == SelectSeq(s, LAMBDA c : c \in Alnum)

\* def squash_text(txt) (lines 40-48)
squash_text(txt) == sub_non_alnum(lower(asciiify(txt)))

NoText == [txt |-> <<>>, outs |-> <<>>]

\* No text squashed yet.
InitText == text = NoText

\* No merge applied yet.
InitMerge == retired = {}

(***************************************************************************)
(* Two EquivalenceGroups objects: eq, the object of representatives above, *)
(* and a second one that is given the pairs of the first in any order, in  *)
(* either argument order, and possibly more than once.                     *)
(***************************************************************************)
MaxPairs == 2

\* A second EquivalenceGroups(), and no pair given to the first.
NoTwin == [rep |-> <<>>, pairs |-> {}, done |-> {}, n |-> 0, k |-> 0]

InitOrder == twin = NoTwin

(***************************************************************************)
(* Refiner.query (sources/scrapers/refine.py, lines 39-45 and 454-485).    *)
(* A link of the paper is written <<type, i>>, i its place in paper.links. *)
(***************************************************************************)
MaxLinks == 2

\* refiners as the @refiner decorators fill it (lines 142, 207, 251, 298,
\* 366, 428, 441): per link type, <<priority, function>> in the order of
\* definition.  The functions of lines 429 and 442 are both named refine.
refiners ==
    [type \in {"doi", "pmc", "arxiv", "openreview"} |->
        CASE type = "doi" ->
                <<<<190, "refine_doi_with_ieeexplore">>,
                  <<100, "refine_doi_with_crossref">>,
                  <<90, "refine_doi_with_biorxiv">>,
                  <<90, "refine_doi_with_sciencedirect">>>>
          [] type = "pmc" -> <<<<110, "refine_with_pubmedcentral">>>>
          [] type = "arxiv" -> <<<<6, "refine (arxiv)">>>>
          [] type = "openreview" -> <<<<5, "refine (openreview)">>>>]

\* The types of the links of a paper; no refiner is registered for "html".
LinkTypes == DOMAIN refiners \cup {"html"}

\* refiners.get(link.type, [])
refiners_get(type) == IF type \in DOMAIN refiners THEN refiners[type] ELSE <<>>

\* for link in paper.links: _refiners.extend(...) (lines 470-474)
RECURSIVE extend_all(_, _)
extend_all(links, i) ==
    IF i > Len(links) THEN <<>>
    ELSE LET rs == refiners_get(links[i])
         IN  [j \in DOMAIN rs |-> [priority |-> rs[j][1],
                                   link |-> <<links[i], i>>,
                                   refiner |-> rs[j][2]]]
             \o extend_all(links, i + 1)

\* _refiners.sort(reverse=True, key=...) (line 476): list.sort is stable,
\* with reverse too, so the entries of one priority keep their order.
RECURSIVE sort_reverse(_)
sort_reverse(xs) ==
    IF xs = <<>> THEN <<>>
    ELSE LET x == Head(xs)
             ys == sort_reverse(Tail(xs))
             k == Cardinality({j \in DOMAIN ys : ys[j].priority > x.priority})
         IN  SubSeq(ys, 1, k) \o <<x>> \o SubSeq(ys, k + 1, Len(ys))

\* What a call of a refiner does: it returns a paper, it returns None (or
\* another false value), or it raises an Exception.
Outcomes == {"result", "none", "raise"}

\* Refiner.query not called.
NoRefine == [pc |-> "idle", links |-> <<>>, queue |-> <<>>, ran |-> <<>>,
             yielded |-> <<>>]

InitRefine == rf = NoRefine

(***************************************************************************)
(* The upload loop (mila_upload.py, lines 87-94 and 115-142).  papers is   *)
(* the iterator search() returns, consumed as the loop goes; a paper is    *)
(* written [id, ok], ok saying whether export(p) returns or raises.        *)
(***************************************************************************)
MaxFound == 3

\* def export_all(papers, limit) (lines 87-94): zip asks range(limit) first,
\* so it takes no paper once limit papers are taken.  [results, tried, rest]
RECURSIVE export_all(_, _)
export_all(papers, limit) ==
    IF limit = 0 \/ papers = <<>>
    THEN [results |-> <<>>, tried |-> <<>>, rest |-> papers]
    ELSE LET p == Head(papers)
             r == export_all(Tail(papers), limit - 1)
         IN  [results |-> (IF p.ok THEN <<p.id>> ELSE <<>>) \o r.results,
              tried |-> <<p.id>> \o r.tried,
              rest |-> r.rest]

\* The papers a search found: the i-th succeeds in export when found[i].
Found == UNION {[1..n -> BOOLEAN] : n \in 0..MaxFound}

\* The command not run.
NoUpload == [pc |-> "idle", found |-> <<>>, papers |-> <<>>, block_size |-> 0,
             force_validation |-> FALSE, only_dump |-> FALSE, i |-> 0,
             tried |-> <<>>, blocks |-> <<>>]

InitUpload == up = NoUpload

\* import_all not called yet.
InitIo == io = [opened |-> {}, empty |-> 0]

\* No second object, no call of Refiner.query and no upload yet.
InitRuns == InitOrder /\ InitRefine /\ InitUpload

InitAux ==
    /\ InitEquivalenceGroups /\ InitTags /\ InitMerge /\ InitQuery /\ InitText
    /\ InitIo /\ InitRuns

(***************************************************************************)
(* The Database object and its operations.                                 *)
(***************************************************************************)
NoSession == [open |-> FALSE, db |-> EmptyDb]

EmptyCache == [h \in {} |-> NoneRow]

NoEntry == [db |-> EmptyDb, cache |-> EmptyCache]

NoArgs == [root |-> <<>>, before |-> <<>>, after |-> <<>>]

\* The arguments replay is called with.
Roots == {HistoryRoot, HistoryFile}

Bounds == {<<>>, <<1>>, <<1, 2>>, <<2>>}

\* def __init__(self, filename) (lines 31-39), on a new database file.
InitDatabase ==
    /\ db = EmptyDb
    /\ session = NoSession
    /\ cache = EmptyCache
    /\ history = [f \in FilePaths |-> <<>>]
    /\ pc = "idle"
    /\ batch = <<>>
    /\ idx = 0
    /\ files = <<>>
    /\ args = NoArgs
    /\ nops = 0
    /\ trace = <<>>
    /\ entry = NoEntry
    /\ last = NoneRow

Init == InitDatabase /\ InitAux

\* def __enter__(self) (lines 41-43): a new Session on the engine.
__enter__ ==
    /\ session' = [open |-> TRUE, db |-> db]
    /\ entry' = [db |-> db, cache |-> cache]
    /\ trace' = <<>>

\* __exit__ without its last line: the session stays in self.session.
exit_keeping_session ==
    /\ db' = session.db
    /\ session' = [open |-> TRUE, db |-> session.db]
    /\ entry' = NoEntry
    /\ trace' = <<>>

\* def __exit__(self, *args) (lines 45-48): commit, whatever args are.
__exit__ ==
    /\ db' = session.db
    /\ session' = NoSession
    /\ entry' = NoEntry
    /\ trace' = <<>>

St0 == [sess |-> session.open, db |-> session.db, cache |-> cache,
        ok |-> TRUE, ret |-> NoneRow, trace |-> <<>>]

\* One call self.acquire(x) made by the running operation.
Call(x, pcRaise) ==
    LET s == acquire(St0, x)
    IN  /\ session' = [session EXCEPT !.db = s.db]
        /\ cache' = s.cache
        /\ trace' = trace \o s.trace
        /\ last' = IF s.ok THEN x ELSE NoneRow
        /\ pc' = IF s.ok THEN pc ELSE pcRaise

\* with db: ... (a caller's own transaction scope)
ScopeEnter ==
    /\ pc = "idle" /\ nops < MaxOps
    /\ __enter__
    /\ pc' = "scope"
    /\ UNCHANGED <<db, cache, history, batch, idx, files, args, nops, last>>
    /\ UNCHANGED aux

\* db.acquire(x) inside the caller's scope
ScopeAcquire(x) ==
    /\ pc = "scope" /\ nops < MaxOps
    /\ Call(x, "scope_raise")
    /\ nops' = nops + 1
    /\ UNCHANGED <<db, history, batch, idx, files, args, entry>>
    /\ UNCHANGED aux

\* __exit__ emptying the cache as it closes the transaction.
ScopeExitClearing ==
    /\ pc \in {"scope", "scope_raise"}
    /\ __exit__
    /\ pc' = "idle"
    /\ cache' = EmptyCache
    /\ UNCHANGED <<history, batch, idx, files, args, nops, last>>
    /\ UNCHANGED aux

\* leaving the caller's scope, normally or with the exception of acquire
ScopeExit ==
    /\ pc \in {"scope", "scope_raise"}
    /\ __exit__
    /\ pc' = "idle"
    /\ UNCHANGED <<cache, history, batch, idx, files, args, nops, last>>
    /\ UNCHANGED aux

\* import_all writing the history lines before it opens the transaction.
ImportBeginLogFirst(xs) ==
    /\ pc = "idle"
    /\ __enter__
    /\ batch' = xs
    /\ idx' = 1
    /\ pc' = "import"
    /\ nops' = nops + Len(xs)
    /\ history' = [history EXCEPT ![HistoryFile] =
                      @ \o [i \in 1..Len(xs) |-> tagged_json(xs[i])]]
    /\ UNCHANGED <<db, cache, files, args, last>>
    /\ io' = [io EXCEPT !.opened = @ \cup {HistoryFile}]
    /\ UNCHANGED objects

\* def import_all(self, xs, history_file=None) (lines 210-220)
\* lines 211-215: xs is not empty; with self:
ImportBegin(xs) ==
    /\ pc = "idle"
    /\ __enter__
    /\ batch' = xs
    /\ idx' = 1
    /\ pc' = "import"
    /\ nops' = nops + Len(xs)
    /\ UNCHANGED <<db, cache, history, files, args, last>>
    /\ UNCHANGED aux

\* import_all without lines 211-212, given no entity: the transaction is
\* entered and left and the history file opened, for nothing.
ImportEmptyUnguarded ==
    /\ pc = "idle" /\ nops < MaxOps
    /\ nops' = nops + 1
    /\ io' = [opened |-> io.opened \cup {HistoryFile}, empty |-> io.empty + 1]
    /\ UNCHANGED <<db, session, cache, history, pc, batch, idx, files, args,
                   trace, entry, last>>
    /\ UNCHANGED objects

\* lines 211-212: if not xs: return
ImportEmpty ==
    /\ pc = "idle" /\ nops < MaxOps
    /\ nops' = nops + 1
    /\ io' = [io EXCEPT !.empty = @ + 1]
    /\ UNCHANGED <<db, session, cache, history, pc, batch, idx, files, args,
                   trace, entry, last>>
    /\ UNCHANGED objects

\* lines 216-217: for x in tqdm(xs): self.acquire(x)
ImportAcquire ==
    /\ pc = "import" /\ idx <= Len(batch)
    /\ Call(batch[idx], "import_raise")
    /\ idx' = idx + 1
    /\ UNCHANGED <<db, history, batch, files, args, nops, entry>>
    /\ UNCHANGED aux

\* the with block of line 215 ends: __exit__
ImportExit ==
    /\ pc = "import" /\ idx > Len(batch)
    /\ __exit__
    /\ pc' = "append"
    /\ UNCHANGED <<cache, history, batch, idx, files, args, nops, last>>
    /\ UNCHANGED aux

\* an exception of acquire leaves the with block and import_all
ImportRaise ==
    /\ pc = "import_raise"
    /\ __exit__
    /\ pc' = "idle"
    /\ batch' = <<>>
    /\ idx' = 0
    /\ UNCHANGED <<cache, history, files, args, nops, last>>
    /\ UNCHANGED aux

\* open(history_file, "w") in place of "a": the file is written anew.
ImportAppendTruncating ==
    /\ pc = "append"
    /\ history' = [history EXCEPT ![HistoryFile] =
                      [i \in 1..Len(batch) |-> tagged_json(batch[i])]]
    /\ pc' = "idle"
    /\ batch' = <<>>
    /\ idx' = 0
    /\ UNCHANGED <<db, session, cache, files, args, nops, trace, entry, last>>
    /\ io' = [io EXCEPT !.opened = @ \cup {HistoryFile}]
    /\ UNCHANGED objects

\* lines 218-220: one line per x, appended to the history file
ImportAppend ==
    /\ pc = "append"
    /\ history' = [history EXCEPT ![HistoryFile] =
                      @ \o [i \in 1..Len(batch) |-> tagged_json(batch[i])]]
    /\ pc' = "idle"
    /\ batch' = <<>>
    /\ idx' = 0
    /\ UNCHANGED <<db, session, cache, files, args, nops, trace, entry, last>>
    /\ io' = [io EXCEPT !.opened = @ \cup {HistoryFile}]
    /\ UNCHANGED objects

\* def replay(self, history=None, before=None, after=None) (lines 248-258)
\* lines 249-251: the files to replay
ReplayBegin(root, before, after) ==
    /\ pc = "idle" /\ nops < MaxOps
    /\ files' = _accumulate_history_files(root, before, after, <<>>)
    /\ args' = [root |-> root, before |-> before, after |-> after]
    /\ pc' = "replay_next"
    /\ nops' = nops + 1
    /\ UNCHANGED <<db, session, cache, history, batch, idx, trace, entry, last>>
    /\ UNCHANGED aux

\* lines 252-256: with self: lines = f.readlines()
ReplayOpen ==
    /\ pc = "replay_next" /\ files # <<>>
    /\ __enter__
    /\ batch' = history[Head(files)]
    /\ idx' = 1
    /\ pc' = "replay"
    /\ UNCHANGED <<db, cache, history, files, args, nops, last>>
    /\ UNCHANGED aux

\* A line that does not parse passed over, and the loop going on.
ReplayAcquireSkipping ==
    /\ pc = "replay" /\ idx <= Len(batch)
    /\ IF Parses(batch[idx])
       THEN Call(from_dict(batch[idx]), "replay_raise")
       ELSE UNCHANGED <<pc, last, session, cache, trace>>
    /\ idx' = idx + 1
    /\ UNCHANGED <<db, history, batch, files, args, nops, entry>>
    /\ UNCHANGED aux

\* lines 257-258: self.acquire(from_dict(json.loads(l)))
ReplayAcquire ==
    /\ pc = "replay" /\ idx <= Len(batch)
    /\ IF Parses(batch[idx])
       THEN Call(from_dict(batch[idx]), "replay_raise")
       ELSE /\ pc' = "replay_raise"
            /\ last' = NoneRow
            /\ UNCHANGED <<session, cache, trace>>
    /\ idx' = idx + 1
    /\ UNCHANGED <<db, history, batch, files, args, nops, entry>>
    /\ UNCHANGED aux

\* replay appending the lines it applied to the history file, as import_all
\* does with its batch.
ReplayExitLogging ==
    /\ pc = "replay" /\ idx > Len(batch)
    /\ __exit__
    /\ files' = Tail(files)
    /\ pc' = "replay_next"
    /\ batch' = <<>>
    /\ idx' = 0
    /\ history' = [history EXCEPT ![HistoryFile] = @ \o batch]
    /\ io' = [io EXCEPT !.opened = @ \cup {HistoryFile}]
    /\ UNCHANGED <<cache, args, nops, last>>
    /\ UNCHANGED objects

\* the with block of line 254 ends for this file
ReplayExit ==
    /\ pc = "replay" /\ idx > Len(batch)
    /\ __exit__
    /\ files' = Tail(files)
    /\ pc' = "replay_next"
    /\ batch' = <<>>
    /\ idx' = 0
    /\ UNCHANGED <<cache, history, args, nops, last>>
    /\ UNCHANGED aux

\* an exception leaves the with block and replay
ReplayRaise ==
    /\ pc = "replay_raise"
    /\ __exit__
    /\ files' = <<>>
    /\ args' = NoArgs
    /\ pc' = "idle"
    /\ batch' = <<>>
    /\ idx' = 0
    /\ UNCHANGED <<cache, history, nops, last>>
    /\ UNCHANGED aux

\* line 252: no file is left
ReplayEnd ==
    /\ pc = "replay_next" /\ files = <<>>
    /\ args' = NoArgs
    /\ pc' = "idle"
    /\ UNCHANGED <<db, session, cache, history, batch, idx, files, nops, trace,
                   entry, last>>
    /\ UNCHANGED aux

\* The process ends (or is killed) and a new Database is made on the same
\* file: what the open session had not committed is lost, the cache is new.
Restart ==
    /\ pc # "idle" \/ cache # EmptyCache
    /\ session' = NoSession
    /\ cache' = EmptyCache
    /\ pc' = "idle"
    /\ batch' = <<>>
    /\ idx' = 0
    /\ files' = <<>>
    /\ args' = NoArgs
    /\ trace' = <<>>
    /\ entry' = NoEntry
    /\ last' = NoneRow
    /\ UNCHANGED <<db, history, nops>>
    /\ UNCHANGED aux

Next ==
    \/ ScopeEnter
    \/ \E x \in Trees : Offered(x, session.db) /\ ScopeAcquire(x)
    \/ ScopeExit
    \/ \E xs \in Batches(MaxOps - nops) :
          (\A i \in DOMAIN xs : Offered(xs[i], db)) /\ ImportBegin(xs)
    \/ ImportEmpty
    \/ ImportAcquire
    \/ ImportExit
    \/ ImportRaise
    \/ ImportAppend
    \/ \E root \in Roots : ReplayBegin(root, <<>>, <<>>)
    \/ ReplayOpen
    \/ ReplayAcquire
    \/ ReplayExit
    \/ ReplayEnd
    \/ Restart

\* Every line import_all wrote parses, and is of an entity that was acquired
\* without an exception: ReplayRaise has no state to start from here, and is
\* a step of SpecReplay below, whose history holds a line that does not parse.
Spec == Init /\ [][Next]_vars

\* A new Database object between two calls.
NewDatabase == pc = "idle" /\ Restart

\* Only import_all calls, through one Database or several successive ones.
NextImport ==
    \/ \E xs \in Batches(MaxOps - nops) :
          (\A i \in DOMAIN xs : Offered(xs[i], db)) /\ ImportBegin(xs)
    \/ ImportEmpty
    \/ ImportAcquire
    \/ ImportExit
    \/ ImportRaise
    \/ ImportAppend
    \/ NewDatabase

SpecImport == Init /\ [][NextImport]_vars

\* A history written earlier: four files, one of them with a line that does
\* not parse between two that do.
WrittenHistory ==
    (HistoryRoot \o <<<<1, 1>>>>) :> <<tagged_json(PA)>>
    @@ (HistoryRoot \o <<<<1, 2>>>>) :> <<tagged_json(PB), Garbage, tagged_json(PA)>>
    @@ (HistoryRoot \o <<<<2>>, <<1, 1>>>>) :> <<tagged_json(PB), tagged_json(AQ)>>
    @@ (HistoryRoot \o <<<<2>>, <<3>>>>) :> <<tagged_json(PA)>>

\* A new Database on an empty file, beside a history written earlier.
InitReplay ==
    /\ db = EmptyDb
    /\ session = NoSession
    /\ cache = EmptyCache
    /\ history = WrittenHistory
    /\ pc = "idle"
    /\ batch = <<>>
    /\ idx = 0
    /\ files = <<>>
    /\ args = NoArgs
    /\ nops = 0
    /\ trace = <<>>
    /\ entry = NoEntry
    /\ last = NoneRow
    /\ InitAux

\* Only replay calls, with every root and every pair of bounds.
NextReplay ==
    \/ \E root \in Dirs \cup FilePaths, before \in Bounds, after \in Bounds :
          ReplayBegin(root, before, after)
    \/ ReplayOpen
    \/ ReplayAcquire
    \/ ReplayExit
    \/ ReplayRaise
    \/ ReplayEnd
    \/ NewDatabase

SpecReplay == InitReplay /\ [][NextReplay]_vars

(***************************************************************************)
(* The operations of an EquivalenceGroups object.                          *)
(***************************************************************************)
\* eq.equiv(a, b)
Equiv(a, b) ==
    /\ representatives' = equiv(representatives, a, b)
    /\ declared' = Join(declared, a, b)
    /\ result' = NoResult
    /\ UNCHANGED <<names, classes, dbvars, tagvars, mergevars, queryvars, textvars, iovars, runvars>>

\* eq.equiv_all(ids, cls, under), ids not empty (lines 189-194)
EquivAllAs(ids, cls, under) ==
    /\ representatives' = equiv_rest(representatives, ids[1], ids, 2)
    /\ names' = set_all(names, ids, under)
    /\ classes' = set_all(classes, ids, cls)
    /\ declared' = JoinRest(declared, ids[1], ids, 2)
    /\ result' = NoResult
    /\ UNCHANGED <<dbvars, tagvars, mergevars, queryvars, textvars, iovars, runvars>>

\* eq.equiv_all(ids, cls, under) with one kind and one label
EquivAll(ids) == EquivAllAs(ids, "cls", "under")

\* eq.groups()
Groups ==
    /\ result.op # "groups"
    /\ LET g == groups(representatives)
       IN  /\ representatives' = g.rep
           /\ result' = [NoResult EXCEPT !.op = "groups", !.results = g.results]
    /\ UNCHANGED <<names, classes, declared, dbvars, tagvars, mergevars, queryvars, textvars, iovars, runvars>>

\* list(eq): __iter__ run until it returns or raises
Iterate ==
    /\ result.op # "iter"
    /\ LET g == groups(representatives)
           r == iterate(g.results, names, classes, 1, <<>>)
       IN  /\ representatives' = g.rep
           /\ result' = [op |-> "iter", results |-> g.results,
                         yielded |-> r.yielded, error |-> r.error]
    /\ UNCHANGED <<names, classes, declared, dbvars, tagvars, mergevars, queryvars, textvars, iovars, runvars>>

NextEquiv ==
    \/ \E a, b \in Addrs : Equiv(a, b)
    \/ \E ids \in IdLists : EquivAll(ids)
    \/ Groups
    \/ Iterate

SpecEquiv == Init /\ [][NextEquiv]_vars

\* eq.follow(a): what it leaves in the object; what groups() returned
\* earlier is the caller's and stays as it is.
Follow(a) ==
    /\ representatives' = follow(representatives, a).rep
    /\ UNCHANGED <<names, classes, declared, result, dbvars, tagvars, mergevars, queryvars, textvars, iovars, runvars>>

\* equiv, equiv_all, follow and groups in any order.
NextFollow ==
    \/ \E a, b \in Addrs : Equiv(a, b)
    \/ \E ids \in IdLists : EquivAll(ids)
    \/ \E a \in Addrs : Follow(a)
    \/ Groups

SpecFollow == Init /\ [][NextFollow]_vars

\* eq.equiv(a, b), one more pair among those the second object is to get
Declare(a, b) ==
    /\ twin.n < MaxPairs
    /\ representatives' = equiv(representatives, a, b)
    /\ declared' = Join(declared, a, b)
    /\ result' = NoResult
    /\ twin' = [twin EXCEPT !.pairs = @ \cup {{a, b}}, !.n = @ + 1]
    /\ UNCHANGED <<names, classes, dbvars, tagvars, mergevars, queryvars,
                   textvars, iovars, refinevars, uploadvars>>

\* equiv(a, b) on the second object, for a pair the first was given as
\* (a, b) or as (b, a), whether the second has had it yet or not.  Either
\* object may be given a pair twice: both make up to MaxPairs calls.
TwinEquiv(a, b) ==
    /\ {a, b} \in twin.pairs
    /\ twin.k < MaxPairs
    /\ twin' = [twin EXCEPT !.rep = equiv(@, a, b),
                            !.done = @ \cup {{a, b}},
                            !.k = @ + 1]
    /\ UNCHANGED <<dbvars, eqvars, tagvars, mergevars, queryvars, textvars,
                   iovars, refinevars, uploadvars>>

NextOrder ==
    \/ \E a, b \in Addrs : Declare(a, b)
    \/ \E a, b \in Addrs : TwinEquiv(a, b)

SpecOrder == Init /\ [][NextOrder]_vars

\* The kinds and labels equiv_all is called with.
Labels == {[cls |-> "Author", under |-> "n1"], [cls |-> "Paper", under |-> "n2"]}

\* An object whose every equiv call is made through equiv_all.
NextLabel ==
    \/ \E ids \in IdLists, l \in Labels : EquivAllAs(ids, l.cls, l.under)
    \/ Iterate

SpecLabel == Init /\ [][NextLabel]_vars

(***************************************************************************)
(* Tagging an address.                                                     *)
(***************************************************************************)
\* Some address, not tagged by a call yet.
InitTag ==
    /\ InitDatabase /\ InitEquivalenceGroups /\ InitMerge /\ InitQuery /\ InitText /\ InitIo
    /\ InitRuns
    /\ uuid \in Uuids /\ status = None

\* uuid = tag_uuid(uuid, s)
Tag(s) ==
    /\ uuid' = tag_uuid(uuid, s)
    /\ status' = s
    /\ UNCHANGED <<dbvars, eqvars, mergevars, queryvars, textvars, iovars, runvars>>

NextTag == \E s \in Statuses : Tag(s)

SpecTag == InitTag /\ [][NextTag]_vars

(***************************************************************************)
(* A query of Semantic Scholar, its results consumed to the end.           *)
(***************************************************************************)
\* def query(self, author, title, block_size, limit), and the head of the
\* _list it reaches (params and next_offset = 0).  The scrapers version
\* calls author_with_papers(author) with neither block_size nor limit.
Query(version, author, title, block_size, limit, total, papers) ==
    /\ ss.pc # "list"
    /\ LET passed == title \/ version = "discovery"
           bs == IF passed THEN block_size ELSE DefaultBlockSize
           lim == IF passed THEN limit ELSE DefaultLimit
       IN  ss' = [pc |-> IF author /\ title THEN "QueryError"
                         ELSE IF author \/ title THEN "list" ELSE "done",
                  version |-> version, author |-> author, title |-> title,
                  limit |-> limit, list_limit |-> lim,
                  params_limit |-> Min(OrDefault(bs), lim),
                  next_offset |-> 0, yielded |-> 0, total |-> total,
                  papers |-> papers]
    /\ UNCHANGED <<dbvars, eqvars, tagvars, mergevars, textvars, iovars, runvars>>

\* One turn of the while loop of _list: a page, each of its entries yielded;
\* query yields a title match as one paper, an author with all their papers.
ListPage ==
    /\ ss.pc = "list"
    /\ ss.next_offset # NoOffset /\ ss.next_offset < ss.list_limit
    /\ LET results == _evaluate(ss.total, ss.next_offset, ss.params_limit)
       IN  ss' = [ss EXCEPT !.next_offset = results.next,
                            !.yielded = @ + (IF ss.title THEN results.data
                                             ELSE results.data * ss.papers)]
    /\ UNCHANGED <<dbvars, eqvars, tagvars, mergevars, textvars, iovars, runvars>>

\* An answer with no "data": _list prints the message and returns.
ListNoData ==
    /\ ss.pc = "list"
    /\ ss.next_offset # NoOffset /\ ss.next_offset < ss.list_limit
    /\ ss' = [ss EXCEPT !.pc = "done", !.next_offset = NoOffset]
    /\ UNCHANGED <<dbvars, eqvars, tagvars, mergevars, textvars, iovars, runvars>>

\* The while condition is false: _list and query return.
ListEnd ==
    /\ ss.pc = "list"
    /\ ~(ss.next_offset # NoOffset /\ ss.next_offset < ss.list_limit)
    /\ ss' = [ss EXCEPT !.pc = "done"]
    /\ UNCHANGED <<dbvars, eqvars, tagvars, mergevars, textvars, iovars, runvars>>

NextQuery ==
    \/ \E version \in Versions, author, title \in BOOLEAN,
          block_size \in 0..MaxLimit, limit \in 0..MaxLimit,
          total \in 0..MaxTotal, papers \in 0..MaxPapers :
          Query(version, author, title, block_size, limit, total, papers)
    \/ ListPage
    \/ ListNoData
    \/ ListEnd

SpecQuery == Init /\ [][NextQuery]_vars

(***************************************************************************)
(* squash_text applied to a text, and again to what it returned.           *)
(***************************************************************************)
\* Some text, not squashed yet.
InitSquash ==
    /\ InitDatabase /\ InitEquivalenceGroups /\ InitTags /\ InitMerge
    /\ InitQuery /\ InitIo /\ InitRuns
    /\ text \in [txt : Texts, outs : {<<>>}]

\* squash_text(txt), then squash_text of the result
Squash ==
    /\ Len(text.outs) < 2
    /\ text' = [text EXCEPT !.outs =
                   Append(@, squash_text(IF @ = <<>> THEN text.txt ELSE @[Len(@)]))]
    /\ UNCHANGED <<dbvars, eqvars, tagvars, mergevars, queryvars, iovars, runvars>>

NextSquash == Squash

SpecSquash == InitSquash /\ [][NextSquash]_vars

(***************************************************************************)
(* Merging authors.  The directives are those __iter__ yields; the routine *)
(* that applies one to the store is not part of src/ and is taken from     *)
(* spec.md section 4.2: the representative survives, every key and foreign *)
(* key naming a retired member is rewritten to it, the retired entity rows *)
(* are removed, in one transaction.                                        *)
(***************************************************************************)
A2 == Author("a2", 1, <<>>, <<"al3">>, <<>>, <<>>)

PC == Paper("p4", 1, <<A2>>, <<>>, <<>>, <<>>, <<>>)

PD == Paper("p5", 1, <<A2>>, <<>>, <<>>, <<>>, <<>>)

MergeTrees == {PA, PC, PD}

MergeBatches(n) == UNION {[1..k -> MergeTrees] : k \in 1..n}

\* The author address each address of the EquivalenceGroups stands for.
AuthorAddress == <<"a1", "a2">>

EntityTables == {"paper", "author", "institution", "release", "topic", "venue"}

Retarget(x, main, gone) == IF x \in gone THEN main ELSE x

RetargetRow(r, main, gone) ==
    [r EXCEPT !.key = [i \in DOMAIN r.key |-> Retarget(r.key[i], main, gone)],
              !.ref = Retarget(r.ref, main, gone)]

\* One directive applied to the rows d: main survives, gone are retired.
apply_merge(d, main, gone) ==
    LET kept == {r \in DOMAIN d : ~(r.tbl \in EntityTables /\ r.key[1] \in gone)}
    IN  [q \in {RetargetRow(r, main, gone) : r \in kept} |-> 1]

RECURSIVE apply_all(_, _, _)
apply_all(d, results, i) ==
    IF i > Len(results) THEN d
    ELSE LET main == AuthorAddress[results[i][1]]
             gone == {AuthorAddress[x] : x \in results[i][2]} \ {main}
         IN  apply_all(apply_merge(d, main, gone), results, i + 1)

\* for directive in eq: apply it, between two operations of the Database
ApplyMerge ==
    /\ pc = "idle"
    /\ result.op = "iter" /\ result.error = None /\ result.yielded # <<>>
    /\ db' = apply_all(db, result.results, 1)
    /\ retired' = retired \cup
          UNION {{AuthorAddress[x] : x \in result.results[i][2]}
                    \ {AuthorAddress[result.results[i][1]]} :
                 i \in DOMAIN result.results}
    /\ result' = NoResult
    /\ UNCHANGED <<session, cache, history, pc, batch, idx, files, args, nops,
                   trace, entry, last>>
    /\ UNCHANGED <<representatives, names, classes, declared, tagvars, queryvars,
                   textvars, iovars, runvars>>

NextMerge ==
    \/ \E xs \in MergeBatches(MaxOps - nops) : ImportBegin(xs)
    \/ ImportAcquire
    \/ ImportExit
    \/ ImportAppend
    \/ NewDatabase
    \/ \E ids \in {<<1, 2>>, <<2, 1>>} : pc = "idle" /\ EquivAll(ids)
    \/ pc = "idle" /\ Iterate
    \/ ApplyMerge

SpecMerge == Init /\ [][NextMerge]_vars

(***************************************************************************)
(* Two entities of one address.  PAc and PBc have the addresses of PA and  *)
(* PB and other content in the fields that do not enter the address.       *)
(***************************************************************************)
PAc == Paper("p1", 2, <<>>, <<>>, <<>>, <<>>, <<>>)

PBc == Paper("p2", 2, <<>>, <<>>, <<>>, <<"pl2">>, <<>>)

CollidingTrees == {PA, PAc, PB, PBc}

NextCollide ==
    \/ ScopeEnter
    \/ \E x \in CollidingTrees : ScopeAcquire(x)
    \/ ScopeExit
    \/ NewDatabase

SpecCollide == Init /\ [][NextCollide]_vars

(***************************************************************************)
(* Papers with two authors.  PE and PF are one paper with its authors in   *)
(* the two orders; the two authors listed by PG have one address.          *)
(***************************************************************************)
PE == Paper("p6", 1, <<A1x, A2>>, <<>>, <<>>, <<>>, <<>>)

PF == Paper("p6", 1, <<A2, A1x>>, <<>>, <<>>, <<>>, <<>>)

PG == Paper("p7", 1, <<A1x, A1y>>, <<>>, <<>>, <<>>, <<>>)

AuthorTrees == {PE, PF, PG}

NextAuthors ==
    \/ ScopeEnter
    \/ \E x \in AuthorTrees : ScopeAcquire(x)
    \/ ScopeExit
    \/ NewDatabase

SpecAuthors == Init /\ [][NextAuthors]_vars

(***************************************************************************)
(* Transaction scopes used outside their protocol: acquire with no scope   *)
(* open, and a scope entered inside another.  The second __enter__         *)
(* (line 42) puts a new Session in self.session; the Session of the        *)
(* enclosing scope is referred to by nothing from then on, so what it      *)
(* wrote is never committed.  The __exit__ of the inner scope sets         *)
(* self.session to None (line 48): the enclosing scope goes on with no     *)
(* session ("orphan"), and its own __exit__ fails at self.session.commit().*)
(***************************************************************************)
\* db.acquire(x) with self.session None: before any scope, between scopes,
\* or in a scope whose session an inner scope has cleared.
BareAcquire(x) ==
    /\ pc \in {"idle", "orphan"} /\ nops < MaxOps
    /\ Call(x, pc)
    /\ nops' = nops + 1
    /\ UNCHANGED <<db, history, batch, idx, files, args, entry>>
    /\ UNCHANGED aux

\* with db: inside a with db: of the same Database
NestedEnter ==
    /\ pc = "scope"
    /\ __enter__
    /\ pc' = "nested"
    /\ UNCHANGED <<db, cache, history, batch, idx, files, args, nops, last>>
    /\ UNCHANGED aux

\* db.acquire(x) inside the inner scope
NestedAcquire(x) ==
    /\ pc = "nested" /\ nops < MaxOps
    /\ Call(x, "nested_raise")
    /\ nops' = nops + 1
    /\ UNCHANGED <<db, history, batch, idx, files, args, entry>>
    /\ UNCHANGED aux

\* While rows acquired earlier are uncommitted, the connection of the
\* abandoned Session may still hold the lock of the database file: a
\* statement of the inner scope can then raise instead of writing.
NestedLocked ==
    /\ pc = "nested" /\ nops < MaxOps
    /\ \E h \in DOMAIN cache : cache[h] # NoneRow /\ cache[h] \notin DOMAIN db
    /\ pc' = "nested_raise"
    /\ last' = NoneRow
    /\ trace' = Append(trace, Event("raise", NoneRow))
    /\ nops' = nops + 1
    /\ UNCHANGED <<db, session, cache, history, batch, idx, files, args, entry>>
    /\ UNCHANGED aux

\* leaving the inner scope, normally or with an exception
NestedExit ==
    /\ pc \in {"nested", "nested_raise"}
    /\ __exit__
    /\ pc' = IF pc = "nested" THEN "orphan" ELSE "orphan_raise"
    /\ UNCHANGED <<cache, history, batch, idx, files, args, nops, last>>
    /\ UNCHANGED aux

\* leaving the enclosing scope: self.session.commit() (line 46) raises
\* AttributeError, self.session being None
OrphanExit ==
    /\ pc \in {"orphan", "orphan_raise"}
    /\ pc' = "idle"
    /\ last' = NoneRow
    /\ trace' = <<>>
    /\ UNCHANGED <<db, session, cache, history, batch, idx, files, args, nops,
                   entry>>
    /\ UNCHANGED aux

NextScope ==
    \/ ScopeEnter
    \/ \E x \in Trees : Offered(x, session.db) /\ ScopeAcquire(x)
    \/ ScopeExit
    \/ \E x \in Trees : Offered(x, db) /\ BareAcquire(x)
    \/ NestedEnter
    \/ \E x \in Trees : Offered(x, session.db) /\ NestedAcquire(x)
    \/ NestedLocked
    \/ NestedExit
    \/ OrphanExit

SpecScope == Init /\ [][NextScope]_vars

(***************************************************************************)
(* A call of Refiner.query, a generator: its consumer asks for the first   *)
(* value, and may or may not ask for a second one.                         *)
(***************************************************************************)
\* Refiner.query(link) up to the sort (lines 462-476).  found says whether
\* the select returns a paper; with no row the unpacking of line 468 raises.
RefineQuery(found, links) ==
    /\ rf.pc = "idle"
    /\ rf' = IF found
             THEN [NoRefine EXCEPT !.pc = "run", !.links = links,
                                   !.queue = sort_reverse(extend_all(links, 1))]
             ELSE [NoRefine EXCEPT !.pc = "ValueError"]
    /\ UNCHANGED <<dbvars, eqvars, tagvars, mergevars, queryvars, textvars,
                   iovars, ordervars, uploadvars>>

\* The loop going on after the yield, with no return.
RefineTryOn(outcome) ==
    /\ rf.pc = "run" /\ Len(rf.ran) < Len(rf.queue)
    /\ LET r == rf.queue[Len(rf.ran) + 1]
       IN  rf' = [rf EXCEPT
                    !.ran = Append(@, [refiner |-> r, outcome |-> outcome]),
                    !.yielded = IF outcome = "result" THEN Append(@, r) ELSE @]
    /\ UNCHANGED <<dbvars, eqvars, tagvars, mergevars, queryvars, textvars,
                   iovars, ordervars, uploadvars>>

\* One turn of the loop of lines 478-485: the next refiner is called; a
\* true result is yielded, None and an Exception lead to the next turn.
RefineTry(outcome) ==
    /\ rf.pc = "run" /\ Len(rf.ran) < Len(rf.queue)
    /\ LET r == rf.queue[Len(rf.ran) + 1]
       IN  rf' = [rf EXCEPT
                    !.ran = Append(@, [refiner |-> r, outcome |-> outcome]),
                    !.yielded = IF outcome = "result" THEN Append(@, r) ELSE @,
                    !.pc = IF outcome = "result" THEN "yielded" ELSE "run"]
    /\ UNCHANGED <<dbvars, eqvars, tagvars, mergevars, queryvars, textvars,
                   iovars, ordervars, uploadvars>>

\* The consumer asks for a second value: the return of line 482.
RefineReturn ==
    /\ rf.pc = "yielded"
    /\ rf' = [rf EXCEPT !.pc = "done"]
    /\ UNCHANGED <<dbvars, eqvars, tagvars, mergevars, queryvars, textvars,
                   iovars, ordervars, uploadvars>>

\* No refiner is left: the generator ends.
RefineEnd ==
    /\ rf.pc = "run" /\ Len(rf.ran) = Len(rf.queue)
    /\ rf' = [rf EXCEPT !.pc = "done"]
    /\ UNCHANGED <<dbvars, eqvars, tagvars, mergevars, queryvars, textvars,
                   iovars, ordervars, uploadvars>>

\* The links of the paper found: up to MaxLinks, of any types.
LinkLists == UNION {[1..n -> LinkTypes] : n \in 0..MaxLinks}

NextRefine ==
    \/ \E found \in BOOLEAN, links \in LinkLists : RefineQuery(found, links)
    \/ \E outcome \in Outcomes : RefineTry(outcome)
    \/ RefineReturn
    \/ RefineEnd

SpecRefine == Init /\ [][NextRefine]_vars

(***************************************************************************)
(* The upload command.                                                     *)
(***************************************************************************)
\* def misc() up to the loop (lines 115-128): the options are read, the
\* command exits with neither a url nor only_dump, the search is started.
Upload(found, block_size, force_validation, only_dump, url) ==
    /\ up.pc = "idle"
    /\ up' = IF ~url /\ ~only_dump
             THEN [NoUpload EXCEPT !.pc = "exit"]
             ELSE [NoUpload EXCEPT
                     !.pc = "loop", !.found = found,
                     !.papers = [j \in DOMAIN found |->
                                    [id |-> j, ok |-> found[j]]],
                     !.block_size = block_size,
                     !.force_validation = force_validation,
                     !.only_dump = only_dump]
    /\ UNCHANGED <<dbvars, eqvars, tagvars, mergevars, queryvars, textvars,
                   iovars, ordervars, refinevars>>

\* One turn of the loop of lines 130-142: a block is exported; an empty
\* block ends the loop; another is marked validated when asked, and is
\* printed or posted.
UploadBlock ==
    /\ up.pc = "loop"
    /\ LET ex == export_all(up.papers, up.block_size)
           exported == [j \in DOMAIN ex.results |->
                           [id |-> ex.results[j],
                            validated |-> up.force_validation]]
       IN  up' = IF ex.results = <<>>
                 THEN [up EXCEPT !.pc = "done", !.papers = ex.rest,
                                 !.tried = @ \o ex.tried]
                 ELSE [up EXCEPT
                         !.papers = ex.rest,
                         !.tried = @ \o ex.tried,
                         !.i = @ + 1,
                         !.blocks = Append(@,
                             [papers |-> exported,
                              sent |-> IF up.only_dump THEN "dump"
                                       ELSE "post"])]
    /\ UNCHANGED <<dbvars, eqvars, tagvars, mergevars, queryvars, textvars,
                   iovars, ordervars, refinevars>>

\* The command run with up to MaxFound papers found and a block size of
\* at least one paper.
NextUpload ==
    \/ \E found \in Found, block_size \in 1..MaxFound,
          force_validation, only_dump, url \in BOOLEAN :
          Upload(found, block_size, force_validation, only_dump, url)
    \/ UploadBlock

SpecUpload == Init /\ [][NextUpload]_vars

\* def replay (lines 248-258) as one function of the history: the rows a
\* Database on an empty file holds when replay(root) ends, by return or by
\* an exception.  __exit__ commits after each file, and after the exception.
RECURSIVE ReplayLines(_, _, _)
ReplayLines(st, lines, i) ==
    IF ~st.ok \/ i > Len(lines) THEN st
    ELSE IF Parses(lines[i])
         THEN ReplayLines(acquire(st, from_dict(lines[i])), lines, i + 1)
         ELSE Raise(st)

RECURSIVE ReplayFiles(_, _, _)
ReplayFiles(st, h, fs) ==
    IF ~st.ok \/ fs = <<>> THEN st
    ELSE ReplayFiles(ReplayLines(st, h[Head(fs)], 1), h, Tail(fs))

replay(h, root, before, after) ==
    ReplayFiles([sess |-> TRUE, db |-> EmptyDb, cache |-> EmptyCache,
                 ok |-> TRUE, ret |-> NoneRow, trace |-> <<>>],
                h, _accumulate_history_files(root, before, after, <<>>)).db

(***************************************************************************)
(* What the claims speak of.                                               *)
(***************************************************************************)
Count(d, tbl) == Cardinality({r \in DOMAIN d : r.tbl = tbl})

Copies(d, tbl, key) ==
    IF HasKey(d, tbl, key)
    THEN LET r == CHOOSE r \in DOMAIN d : r.tbl = tbl /\ r.key = key IN d[r]
    ELSE 0

\* An acquire call returned in this step.
Acquired == Len(trace') > Len(trace) /\ last' # NoneRow

\* C1: Idempotence of acquire.  When acquire(T) has just returned and the
\* call of acquire before it, in this transaction or in the one before, was
\* acquire(T) too and returned, the second call leaves the rows and the
\* association edges the session sees exactly as the first call left them.
C1_AcquireTwiceIsOnce ==
    [][(Acquired /\ last = last') => session'.db = session.db]_vars

\* C1's case: PA (a paper, one author, one affiliation) acquired twice in one
\* batch leaves one paper row, one author row, one institution row, one edge.
C1_Witness ==
    /\ pc = "import" /\ batch = <<PA, PA>> /\ idx = 3
    /\ Count(session.db, "paper") = 1
    /\ Count(session.db, "author") = 1
    /\ Count(session.db, "institution") = 1
    /\ Copies(session.db, "paper_author_institution", <<"p1", "a1", "i1">>) = 1

NoDuplicates(d) ==
    \A r \in DOMAIN d :
        /\ d[r] = 1
        /\ \A q \in DOMAIN d : (q.tbl = r.tbl /\ q.key = r.key) => q = r

\* C2: No duplicates.  After any sequence of acquire, import_all and replay
\* operations every table, as committed and as the open session sees it,
\* holds at most one row per primary key: one row per address in an entity
\* table, one edge per composite key in an association table.
C2_NoDuplicates == NoDuplicates(db) /\ NoDuplicates(session.db)

\* C2's case: PA was imported, a new Database imported it again, and the
\* edge offered twice is in the store once.
C2_Witness ==
    /\ pc = "idle"
    /\ history[HistoryFile] = <<tagged_json(PA), tagged_json(PA)>>
    /\ Copies(db, "paper_author_institution", <<"p1", "a1", "i1">>) = 1
    /\ Copies(db, "paper_release", <<"p1", "r1">>) = 1

\* The entities of a tree, the tree itself included.
RECURSIVE Entities(_)
SeqUnion(f) == UNION {f[i] : i \in DOMAIN f}

Entities(x) ==
    {x} \cup
    CASE x.kind = "Paper" ->
            SeqUnion([i \in DOMAIN x.authors |-> Entities(x.authors[i])])
            \cup SeqUnion([i \in DOMAIN x.releases |-> Entities(x.releases[i])])
            \cup SeqUnion([i \in DOMAIN x.topics |-> Entities(x.topics[i])])
      [] x.kind = "Author" ->
            SeqUnion([i \in DOMAIN x.affiliations |-> Entities(x.affiliations[i])])
            \cup SeqUnion([i \in DOMAIN x.roles |-> Entities(x.roles[i].institution)])
      [] x.kind = "Release" -> Entities(x.venue)
      [] x.kind = "AuthorQuery" -> Entities(x.author)
      [] OTHER -> {}

WellFormed(x) == \A e \in Entities(x) : e.kind \in Kinds

\* Two trees contradict each other when they give one address two values.
Compatible(x, y) ==
    \A e \in Entities(x), f \in Entities(y) :
        (hashid(e) # None /\ hashid(f) # None /\ hashid(e) = hashid(f))
            => (e.kind = f.kind /\ e.val = f.val)

Reversed(xs) == [i \in DOMAIN xs |-> xs[Len(xs) + 1 - i]]

RECURSIVE AcquireAll(_, _, _)
AcquireAll(st, xs, i) ==
    IF i > Len(xs) THEN st ELSE AcquireAll(acquire(st, xs[i]), xs, i + 1)

\* The rows one transaction on the state e = [db, cache] holds after
\* acquiring xs in order.
RowsAfter(e, xs) ==
    AcquireAll([sess |-> TRUE, db |-> e.db, cache |-> e.cache, ok |-> TRUE,
                ret |-> NoneRow, trace |-> <<>>], xs, 1).db

\* C3: Order-independence of batches.  When a batch of well-formed, mutually
\* non-contradictory trees has been acquired in one transaction, the rows
\* are those that acquiring the same trees in the opposite order, from the
\* same store and cache, would have produced.
C3_OrderIndependent ==
    (/\ pc = "import" /\ idx > Len(batch)
     /\ \A i \in DOMAIN batch : WellFormed(batch[i])
     /\ \A i, j \in DOMAIN batch : Compatible(batch[i], batch[j]))
    => session.db = RowsAfter(entry, Reversed(batch))

\* C4: Round-trip replay.  After any sequence of import_all calls on an
\* empty store, through one Database or several, failed calls included,
\* replaying the history into a second, empty store gives the rows of the
\* first store.
C4_RoundTrip ==
    pc = "idle" => replay(history, HistoryRoot, <<>>, <<>>) = db

Raising == pc \in {"scope_raise", "import_raise", "replay_raise"}

\* C5: Transactional rollback.  When an exception leaves a transaction scope,
\* nothing written in the scope is committed: the committed rows after
\* __exit__ are the rows committed at scope entry.
C5_RollbackOnRaise == [][(Raising /\ pc' = "idle") => db' = db]_vars

\* C6: Cache scoping.  While a transaction is open, the cache held no entry
\* when the transaction began: no entry made in an earlier transaction
\* is seen by a later one.
C6_CacheScopedToTransaction == session.open => entry.cache = EmptyCache

\* The rows a row refers to, as <<table, key>>.
Refs(r) ==
    CASE r.tbl = "paper_author" ->
            {<<"paper", <<r.key[1]>>>>, <<"author", <<r.key[2]>>>>}
      [] r.tbl = "paper_author_institution" ->
            {<<"paper", <<r.key[1]>>>>, <<"author", <<r.key[2]>>>>,
             <<"institution", <<r.key[3]>>>>}
      [] r.tbl = "paper_release" ->
            {<<"paper", <<r.key[1]>>>>, <<"release", <<r.key[2]>>>>}
      [] r.tbl = "paper_topic" ->
            {<<"paper", <<r.key[1]>>>>, <<"topic", <<r.key[2]>>>>}
      [] r.tbl \in {"paper_link", "paper_scraper"} -> {<<"paper", <<r.key[1]>>>>}
      [] r.tbl = "release" -> {<<"venue", <<r.ref>>>>}
      [] r.tbl = "venue_link" -> {<<"venue", <<r.key[1]>>>>}
      [] r.tbl \in {"author_link", "author_alias"} -> {<<"author", <<r.key[1]>>>>}
      [] r.tbl = "author_institution" ->
            {<<"author", <<r.key[1]>>>>, <<"institution", <<r.key[2]>>>>}
      [] OTHER -> {}

ReferentiallyComplete(d) ==
    \A r \in DOMAIN d : \A t \in Refs(r) : HasKey(d, t[1], t[2])

\* The store after each write of the open transaction, oldest first.
RECURSIVE CompleteThroughout(_, _, _)
CompleteThroughout(d, events, k) ==
    /\ ReferentiallyComplete(d)
    /\ k <= Len(events) =>
          CompleteThroughout(
              CASE events[k].ev = "merge" -> Upsert(d, events[k].row)
                [] events[k].ev = "execute" -> InsertIgnore(d, events[k].row)
                [] OTHER -> d,
              events, k + 1)

TableOf(kind) ==
    CASE kind = "Paper" -> "paper"
      [] kind = "Author" -> "author"
      [] kind = "Institution" -> "institution"
      [] kind = "Release" -> "release"
      [] kind = "Topic" -> "topic"
      [] kind = "Venue" -> "venue"
      [] OTHER -> None

\* x is in the store d: its own row, or for an AuthorQuery its author's links.
Persisted(x, d) ==
    IF x.kind = "AuthorQuery"
    THEN \A i \in DOMAIN x.author.links :
            HasKey(d, "author_link", <<x.author_id, x.author.links[i]>>)
    ELSE HasKey(d, TableOf(x.kind), <<hashid(x)>>)

Lines(xs) == [i \in DOMAIN xs |-> tagged_json(xs[i])]

IsPrefix(s, t) == Len(s) <= Len(t) /\ SubSeq(t, 1, Len(s)) = s

\* C8: Commit-before-log.  Every entity recorded in a history file is in the
\* committed store, in every state; a step that writes to a history file is
\* taken after the batch's transaction was committed and closed; and the
\* step that ends an import_all whose acquisition raised writes no line.
C8_CommitBeforeLog ==
    /\ [](\A f \in FilePaths : \A i \in DOMAIN history[f] :
             Persisted(from_dict(history[f][i]), db))
    /\ [][/\ history' # history =>
                (pc = "append" /\ ~session.open /\ db' = db
                 /\ \A i \in DOMAIN batch : Persisted(batch[i], db))
          /\ pc = "import_raise" => history' = history]_vars

\* C8's case: one batch is in the log and in the store, and a later batch
\* raised while it was acquired.
C8_Witness ==
    /\ pc = "import_raise"
    /\ history[HistoryFile] = <<tagged_json(PA)>>
    /\ Persisted(PA, db)
    /\ session.db # db

\* The step is import_all's append (lines 218-220) and not a restart.
Appending == pc = "append" /\ pc' = "idle" /\ last' # NoneRow

\* C9: Append-only history.  Every step leaves the former content of every
\* history file as a prefix of its new content; the append of import_all
\* adds the lines of its batch, one per entity and in batch order, to the
\* history file and to no other; no other step changes a history file.
C9_AppendOnly ==
    [][/\ \A f \in FilePaths : IsPrefix(history[f], history'[f])
       /\ Appending =>
             /\ history'[HistoryFile] = history[HistoryFile] \o Lines(batch)
             /\ \A f \in FilePaths \ {HistoryFile} : history'[f] = history[f]
       /\ history' # history => Appending]_vars

\* C9's case: a batch of two is about to be appended to a file that already
\* holds the line of an earlier call.
C9_Witness ==
    /\ pc = "append"
    /\ history[HistoryFile] = <<tagged_json(PB)>>
    /\ batch = <<AQ, PA>>

\* The name n passes the bounds: its prefix is < before and > after.
InRange(n, before, after) ==
    /\ before # <<>> => StrLess(Prefix(n, Len(before)), before)
    /\ after # <<>> => StrLess(after, Prefix(n, Len(after)))

\* C10: Replay range filter.  Whenever replay has applied a record of a file,
\* the file's name prefix is strictly below `before` and strictly above
\* `after` (each when given), whatever root was: a file, a directory, a
\* directory of directories.
C10_RangeFilter ==
    (pc = "replay" /\ idx > 1) =>
        InRange(name(Head(files)), args.before, args.after)

\* Siblings in sorted order at every level: each file comes before every
\* later one in the order of their names where their paths part.
InOrder(fs) == \A i, j \in DOMAIN fs : i < j => PathLess(fs[i], fs[j])

\* C11: Replay ordering.  replay takes the selected files in sorted order,
\* each directory expanded to its sorted children; it acquires the lines of
\* a file in file order, one per step; each file has one transaction, opened
\* when no transaction is open and committed when the file is left, before
\* the next file is opened.
C11_ReplayOrder ==
    /\ [](pc \in {"replay_next", "replay"} => InOrder(files))
    /\ [](pc = "replay" => (session.open /\ batch = history[Head(files)]))
    /\ [](pc = "replay_next" => (~session.open /\ session.db = EmptyDb))
    /\ [][/\ (pc = "replay" /\ pc' = "replay")
              => (idx' = idx + 1 /\ last' = from_dict(batch[idx])
                  /\ db' = db /\ files' = files)
          /\ (pc = "replay_next" /\ pc' = "replay")
              => (idx' = 1 /\ session'.db = db /\ db' = db /\ files' = files)
          /\ (pc = "replay" /\ pc' = "replay_next")
              => (idx > Len(batch) /\ db' = session.db /\ files' = Tail(files))]_vars

\* C11's case: replay of the directory 2 has committed its first file (PB
\* is stored) and has acquired the line of its second file.
C11_Witness ==
    /\ pc = "replay" /\ idx = 2
    /\ args.root = HistoryRoot \o <<<<2>>>>
    /\ files = <<HistoryRoot \o <<<<2>>, <<3>>>>>>
    /\ HasKey(db, "paper", <<"p2">>)
    /\ HasKey(session.db, "paper", <<"p1">>)
    /\ ~HasKey(db, "paper", <<"p1">>)

\* Every row of d is a row of e, as it was.
RowsKept(d, e) == \A r \in DOMAIN d : r \in DOMAIN e /\ e[r] = d[r]

\* C12: Malformed history record is fatal.  The step that meets a line that
\* does not parse acquires nothing and leaves the loop with the exception;
\* the run then ends: no line and no file is taken after it, and the rows
\* committed before are all still there, as they were.
C12_MalformedIsFatal ==
    [][/\ (pc = "replay" /\ idx <= Len(batch) /\ ~Parses(batch[idx]))
            => (pc' \in {"replay_raise", "idle"}
                /\ (pc' = "replay_raise" => (session' = session /\ cache' = cache))
                /\ db' = db)
       /\ pc = "replay_raise"
            => (pc' = "idle" /\ files' = <<>> /\ ~session'.open
                /\ cache' \in {cache, EmptyCache}
                /\ RowsKept(db, db') /\ RowsKept(entry.db, db'))]_vars

\* C12's case: replay of the root met the line that does not parse in its
\* second file, after the first file was committed, with two files to go.
C12_Witness ==
    /\ pc = "replay_raise"
    /\ args.root = HistoryRoot
    /\ Len(files) = 3
    /\ batch[idx - 1] = Garbage
    /\ HasKey(db, "paper", <<"p1">>)
    /\ HasKey(session.db, "paper", <<"p2">>)

\* The addresses of the values of no supported kind that are offered.
Unsupported == {"o1", "o2"}

\* C13: Unsupported entity kind is fatal.  Whenever _acquire was entered on
\* a value that is none of the seven kinds, the next thing that happened was
\* the exception, nothing was written after it and the operation is leaving
\* with the exception; no row and no cache entry carries such a value's
\* address, in the session or in the committed store.
C13_UnsupportedIsFatal ==
    /\ \A i \in DOMAIN trace :
          (trace[i].ev = "_acquire" /\ trace[i].row.tbl \notin Kinds)
              => /\ i + 1 = Len(trace)
                 /\ trace[i + 1].ev = "raise"
                 /\ Raising
                 /\ last = NoneRow
    /\ \A h \in DOMAIN cache : h \notin Unsupported
    /\ \A r \in DOMAIN db \cup DOMAIN session.db :
          \A i \in DOMAIN r.key : r.key[i] \notin Unsupported

\* C13's case: in a scope that had acquired PA, acquire was called on a
\* value of no supported kind and raised.
C13_Witness ==
    /\ pc = "scope_raise"
    /\ Len(trace) > 2
    /\ trace[Len(trace) - 1] = Event("_acquire", Row("Other", <<"o2">>, 0, None))
    /\ HasKey(session.db, "paper", <<"p1">>)
    /\ "p1" \in DOMAIN cache

\* The classes groups() returned, and the class it gave each key.
GroupSets(results) == {results[i][2] : i \in DOMAIN results}

IsPartition(P, S) ==
    /\ UNION P = S
    /\ \A c \in P : c # {}
    /\ \A c, e \in P : c # e => c \cap e = {}

\* C14: Union-find correctness.  What groups() returns is a partition of
\* the addresses given to equiv so far, one entry per class, keyed by a
\* member of the class, and its classes are those of the reflexive,
\* symmetric and transitive closure of the pairs given to equiv.
C14_UnionFind ==
    result.op = "groups" =>
        /\ IsPartition(GroupSets(result.results), UNION declared)
        /\ GroupSets(result.results) = declared
        /\ Len(result.results) = Cardinality(declared)
        /\ \A i \in DOMAIN result.results :
              result.results[i][1] \in result.results[i][2]

\* C14's case: equiv(1, 2) then equiv(2, 3) gave the single class {1, 2, 3}.
C14_Witness ==
    /\ result.op = "groups"
    /\ representatives = <<<<1, 1>>, <<2, 1>>, <<3, 1>>>>
    /\ result.results = <<<<1, {1, 2, 3}>>>>
    /\ names = NoNames

\* C15: No singleton merge.  After any sequence of equiv and equiv_all calls
\* no class of groups() has a single member, and iterating the object ends
\* without an exception, having yielded one directive per class, each with
\* the members of its class, more than one.
C15_NoSingletonMerge ==
    /\ result.op \in {"groups", "iter"} =>
          \A i \in DOMAIN result.results :
              Cardinality(result.results[i][2]) > 1
    /\ result.op = "iter" =>
          /\ result.error = None
          /\ Len(result.yielded) = Len(result.results)
          /\ \A i \in DOMAIN result.yielded :
                result.yielded[i].ids = result.results[i][2]

\* C16: Tag round-trip.  For every non-empty address u and each status s,
\* get_uuid_tag reads s back from tag_uuid(u, s), and is_canonical_uuid holds
\* of it exactly when s is canonical.
C16_TagRoundTrip ==
    /\ status # None =>
          /\ get_uuid_tag(uuid) = status
          /\ is_canonical_uuid(uuid) <=> status = "canonical"
    /\ \A s \in Statuses :
          /\ get_uuid_tag(tag_uuid(uuid, s)) = s
          /\ is_canonical_uuid(tag_uuid(uuid, s)) <=> s = "canonical"

\* C16's case: an address whose first byte was 255 has been tagged
\* transient, and reads back as transient.
C16_Witness ==
    /\ status = "transient"
    /\ uuid = <<127, 255>>
    /\ get_uuid_tag(uuid) = "transient"

\* C17: Tag monotonicity.  No tagging operation takes an address that reads
\* as canonical to one that reads as transient.
C17_TagMonotone ==
    [][is_canonical_uuid(uuid) => is_canonical_uuid(uuid')]_vars

\* The addresses the row r names, in its key and in its foreign key.
Named(r) == {r.key[i] : i \in DOMAIN r.key} \cup {r.ref}

\* C18: Address stability across merge.  Once a merge directive has been
\* applied, no row of the store, committed or seen by the open session,
\* names a retired address, in that state and in every later one.
C18_NoRetiredAddress ==
    \A r \in DOMAIN db \cup DOMAIN session.db : Named(r) \cap retired = {}

\* The store d holds, at the address of x, a row of other content.
Collides(x, d) ==
    \E r \in DOMAIN d :
        r.tbl = TableOf(x.kind) /\ r.key = <<hashid(x)>> /\ r.val # x.val

\* C19: Identity collisions are surfaced.  No call of acquire returns
\* normally for an entity whose address the store holds with other content:
\* such a call ends with an error.
C19_CollisionSurfaced ==
    [][Acquired => ~Collides(last', session.db)]_vars

\* The links, aliases and roles of every author of every paper of xs are
\* in the store d under the author's address.
AuthorDataStored(xs, d) ==
    \A i \in DOMAIN xs : xs[i].kind = "Paper" =>
        \A j \in DOMAIN xs[i].authors :
            LET au == xs[i].authors[j]
            IN  /\ \A k \in DOMAIN au.links :
                      HasKey(d, "author_link", <<hashid(au), au.links[k]>>)
                /\ \A k \in DOMAIN au.aliases :
                      HasKey(d, "author_alias", <<hashid(au), au.aliases[k]>>)
                /\ \A k \in DOMAIN au.roles :
                      HasKey(d, "author_institution",
                             <<hashid(au), hashid(au.roles[k].institution)>>)

\* C20: Author data accumulates.  When the papers of a batch have all been
\* acquired, the store holds, for each author address, the links, aliases
\* and roles of every occurrence of the author in those papers.
C20_AuthorDataAccumulates ==
    (pc = "import" /\ idx > Len(batch)) => AuthorDataStored(batch, session.db)

\* C21: Result limit of the Semantic Scholar query.  A query made with
\* limit = L never yields more than L results, whatever block_size is and
\* whatever the server holds, for a title query and for an author query.
C21_ResultLimit == ss.pc \in {"list", "done"} => ss.yielded <= ss.limit

\* The other case of a letter.
SwapCase(c) ==
    CASE c = 101 -> 69 [] c = 69 -> 101 [] c = 233 -> 201 [] c = 201 -> 233
      [] c = 248 -> 216 [] c = 216 -> 248 [] OTHER -> c

\* The letter with its accent, or without it.
SwapAccent(c) ==
    CASE c = 101 -> 233 [] c = 233 -> 101 [] c = 69 -> 201 [] c = 201 -> 69
      [] OTHER -> c

\* Space and punctuation, and the accent as a character of its own.
Formatting == {32, 45, 769}

Without(s, i) == SubSeq(s, 1, i - 1) \o SubSeq(s, i + 1, Len(s))

With(s, i, c) == SubSeq(s, 1, i) \o <<c>> \o SubSeq(s, i + 1, Len(s))

\* The texts one change of case, spacing, punctuation or accent away from s.
Variants(s) ==
    {[s EXCEPT ![i] = SwapCase(@)] : i \in DOMAIN s}
    \cup {[s EXCEPT ![i] = SwapAccent(@)] : i \in DOMAIN s}
    \cup {Without(s, i) : i \in {j \in DOMAIN s : s[j] \in Formatting}}
    \cup {With(s, i, c) : i \in 0..Len(s), c \in Formatting}

\* C22: Text canonicalization.  What squash_text returns is made of a-z and
\* 0-9 only; squash_text of it returns it again; and a text that differs from
\* the input by the case of a letter, by a space, by a punctuation sign or
\* by an accent on a letter is squashed to the same string.
C22_SquashText ==
    /\ \A i \in DOMAIN text.outs :
          \A k \in DOMAIN text.outs[i] : text.outs[i][k] \in Alnum
    /\ Len(text.outs) = 2 => text.outs[2] = text.outs[1]
    /\ squash_text(squash_text(text.txt)) = squash_text(text.txt)
    /\ \A y \in Variants(text.txt) : squash_text(y) = squash_text(text.txt)

\* C22's case: "E-acute, space, 1" was squashed to "e1", and "e1" to "e1".
C22_Witness ==
    /\ text.txt = <<201, 32, 49>>
    /\ text.outs = <<<<101, 49>>, <<101, 49>>>>

\* Every entity of every tree that is offered.
Offerable == UNION {Entities(x) : x \in Trees}

\* The addresses the cache held when the i-th event of the open transaction
\* took place: those it held at entry and those _acquire was run for since.
CachedAt(i) ==
    (DOMAIN entry.cache
     \cup {trace[j].row.key[1] : j \in {k \in 1..(i - 1) : trace[k].ev = "_acquire"}})
    \ {None}

\* C23: Cache protocol of acquire.  Called on an entity whose address the
\* cache holds, acquire returns the cached row, runs no _acquire and writes
\* nothing; called on an entity of address None it runs _acquire, whatever
\* the cache holds; when it returns for an addressed entity, the cache maps
\* the address to the row returned.  The same holds of the nested calls: in
\* the open transaction _acquire ran only for addresses the cache did not
\* hold, and every hit was on an address it held.
C23_CacheProtocol ==
    /\ session.open =>
          \A x \in Offerable :
              LET hid == hashid(x)
                  s == acquire(St0, x)
              IN  /\ (hid # None /\ hid \in DOMAIN cache) =>
                        /\ s.ok /\ s.ret = cache[hid]
                        /\ s.db = session.db /\ s.cache = cache
                        /\ s.trace = <<Event("hit", cache[hid])>>
                  /\ hid = None =>
                        s.trace[1] = Event("_acquire", Row(x.kind, <<None>>, 0, None))
                  /\ (hid # None /\ s.ok) =>
                        (hid \in DOMAIN s.cache /\ s.cache[hid] = s.ret
                         /\ s.ret.key = <<hid>>)
    /\ \A i \in DOMAIN trace :
          /\ (trace[i].ev = "_acquire" /\ trace[i].row.key # <<None>>)
                => trace[i].row.key[1] \notin CachedAt(i)
          /\ trace[i].ev = "hit" => trace[i].row.key[1] \in CachedAt(i)

\* C23's case: PB was acquired after PA in one batch: its author a1 was
\* found in the cache, so that _acquire ran once for the author's links,
\* aliases and roles, and the cache holds an entry for the address None.
C23_Witness ==
    /\ pc = "import" /\ batch = <<PA, PB>> /\ idx = 3
    /\ None \in DOMAIN cache
    /\ \E i \in DOMAIN trace : trace[i] = Event("hit", Row("author", <<"a1">>, 1, None))
    /\ Cardinality({i \in DOMAIN trace :
                       trace[i] = Event("_acquire", Row("AuthorQuery", <<None>>, 0, None))}) = 1

\* The addresses of the children of x that its row or its edges refer to.
ChildAddrs(x) ==
    CASE x.kind = "Paper" ->
            {hashid(x.authors[i]) : i \in DOMAIN x.authors}
            \cup UNION {{hashid(x.authors[i].affiliations[j]) :
                            j \in DOMAIN x.authors[i].affiliations} :
                        i \in DOMAIN x.authors}
      [] x.kind = "Author" ->
            {hashid(x.roles[i].institution) : i \in DOMAIN x.roles}
      [] x.kind = "Release" -> {hashid(x.venue)}
      [] OTHER -> {}

\* In the events tr of acquire(x), each child of x was acquired (by _acquire
\* or from the cache) before the row of x itself was upserted.
ChildrenFirst(x, tr) ==
    \A m \in DOMAIN tr :
        (tr[m].ev = "merge" /\ tr[m].row.tbl = TableOf(x.kind)
         /\ tr[m].row.key = <<hashid(x)>>)
        => \A h \in ChildAddrs(x) :
              \E j \in 1..(m - 1) :
                  tr[j].ev \in {"_acquire", "hit"} /\ tr[j].row.key = <<h>>

AcquiresChildrenFirst(kinds) ==
    session.open =>
        \A x \in {y \in Offerable : y.kind \in kinds} :
            ChildrenFirst(x, acquire(St0, x).trace)

\* C24: Children-first ordering.  In every acquire of a Paper, an Author or
\* a Release, each child is acquired before the entity's own row is upserted:
\* the authors and their affiliations before the paper row, the institutions
\* of the roles before the author row, the venue before the release row.
C24_ChildrenFirst == AcquiresChildrenFirst({"Paper", "Author", "Release"})

\* The store d holds, for each index i of the author list of the paper x,
\* the edge of x and its i-th author with the ordinal i (counted from 0).
OrdinalsStored(x, d) ==
    \A i \in DOMAIN x.authors :
        Row("paper_author", <<hashid(x), hashid(x.authors[i])>>, i - 1, None)
            \in DOMAIN d

\* C25: Author order is an explicit ordinal.  When acquire of a paper has
\* returned, the edge of the paper and its i-th author carries the ordinal
\* i, for every index i of its author list: also when the paper had been
\* acquired before, and when two of the listed authors have one address.
C25_AuthorOrdinals ==
    [][(Acquired /\ last'.kind = "Paper") => OrdinalsStored(last', session'.db)]_vars

\* C26: Empty batch is a no-op.  A call of import_all with no entity opens
\* no transaction, writes nothing to the store, leaves the cache as it was,
\* appends nothing to the history file and does not open it.
C26_EmptyBatchNoOp ==
    [][io'.empty # io.empty =>
          /\ ~session.open /\ session' = session /\ trace' = trace
          /\ db' = db
          /\ cache' = cache
          /\ history' = history /\ io'.opened = io.opened
          /\ pc' = "idle"]_vars

\* C26's case: import_all was called once with no entity and once with PA,
\* whose line is the only one of the history file.
C26_Witness ==
    /\ pc = "idle" /\ nops = 2
    /\ io = [opened |-> {HistoryFile}, empty |-> 1]
    /\ history[HistoryFile] = <<tagged_json(PA)>>
    /\ "p1" \in DOMAIN cache

\* The entities of the tree x in the order acquire goes through them when
\* nothing is cached, one entry <<kind, address>> per occurrence.
RECURSIVE Visits(_)
Visits(x) ==
    <<<<x.kind, hashid(x)>>>> \o
    CASE x.kind = "Paper" ->
            Concat([i \in DOMAIN x.authors |->
                       Visits(x.authors[i])
                       \o Concat([j \in DOMAIN x.authors[i].affiliations |->
                                     Visits(x.authors[i].affiliations[j])])])
            \o Concat([i \in DOMAIN x.releases |-> Visits(x.releases[i])])
            \o Concat([i \in DOMAIN x.topics |-> Visits(x.topics[i])])
      [] x.kind = "Author" -> Visits(AuthorQuery(hashid(x), x))
      [] x.kind = "AuthorQuery" ->
            Concat([i \in DOMAIN x.author.roles |->
                       Visits(x.author.roles[i].institution)])
      [] x.kind = "Release" -> Visits(x.venue)
      [] OTHER -> <<>>

\* The calls of acquire among the events tr, and those that ran _acquire on e.
Calls(tr) == Cardinality({i \in DOMAIN tr : tr[i].ev \in {"_acquire", "hit"}})

Runs(tr, e) ==
    Cardinality({i \in DOMAIN tr :
                    tr[i].ev = "_acquire" /\ tr[i].row.tbl = e[1]
                    /\ tr[i].row.key = <<e[2]>>})

\* C27: Termination of acquire.  acquire of a tree returns or raises after
\* at most as many calls of acquire as the tree has entity occurrences;
\* _acquire runs on entities of the tree only, and on each at most as many
\* times as it occurs in the tree.
C27_AcquireBounded ==
    session.open =>
        \A x \in Offerable \cup AuthorTrees :
            LET tr == acquire(St0, x).trace
                v == Visits(x)
            IN  /\ Calls(tr) <= Len(v)
                /\ \A i \in DOMAIN tr :
                      tr[i].ev = "_acquire" =>
                          \E k \in DOMAIN v :
                              /\ v[k] = <<tr[i].row.tbl, tr[i].row.key[1]>>
                              /\ Runs(tr, v[k])
                                    <= Cardinality({n \in DOMAIN v : v[n] = v[k]})

\* C27's case: acquire(PA) with nothing cached made its six calls (paper,
\* author, the author's links, affiliation, release, venue), one per entity.
C27_Witness ==
    /\ pc = "scope" /\ last = PA /\ nops = 1
    /\ Len(Visits(PA)) = 6
    /\ Calls(trace) = 6
    /\ \A k \in DOMAIN Visits(PA) : Runs(trace, Visits(PA)[k]) = 1

\* The addresses the dict of representatives holds, as keys and as values.
Known(r) == Keys(r) \cup {r[i][2] : i \in DOMAIN r}

\* C28: Kind and label of a declared class.  After equiv_all(ids, cls, under)
\* every address of ids has the kind cls and the label under and they all
\* have one representative; when every equiv call is made through equiv_all,
\* every address the object holds has a kind and a label, iterating never
\* fails for want of them, and each directive has the kind recorded for the
\* representative of its class.
C28_KindAndLabel ==
    /\ \A ids \in IdLists, l \in Labels :
          LET r == equiv_rest(representatives, ids[1], ids, 2)
              n == set_all(names, ids, l.under)
              c == set_all(classes, ids, l.cls)
          IN  \A i \in DOMAIN ids :
                  /\ ids[i] \in DOMAIN n /\ n[ids[i]] = l.under
                  /\ ids[i] \in DOMAIN c /\ c[ids[i]] = l.cls
                  /\ follow(r, ids[i]).res = follow(r, ids[1]).res
    /\ Known(representatives) \subseteq DOMAIN names \cap DOMAIN classes
    /\ result.op = "iter" =>
          /\ result.error # "KeyError"
          /\ \A i \in DOMAIN result.yielded :
                /\ result.results[i][1] \in DOMAIN classes
                /\ result.yielded[i].cls = classes[result.results[i][1]]
                /\ result.yielded[i].ids = result.results[i][2]

\* C28's case: 1 and 2 were declared one Author, then 1 alone was given the
\* kind Paper: the directive of the class {1, 2} has the kind of 1, Paper.
C28_Witness ==
    /\ result.op = "iter" /\ result.error = None
    /\ result.yielded = <<[cls |-> "Paper", ids |-> {1, 2}]>>
    /\ result.results[1][1] = 1
    /\ classes[2] = "Author" /\ names[2] = "n1" /\ names[1] = "n2"

\* The step replaces the Database object by a new one.
Replaced == pc = "idle" /\ pc' = "idle" /\ cache # EmptyCache /\ cache' = EmptyCache

\* C29: First writer wins within one Database instance.  An address that was
\* acquired is in the cache when acquire returns, and stays there with the
\* same row for as long as the Database object lives; and a call of acquire
\* on an entity whose address is there, whatever its fields and children, in
\* the same transaction or in a later one, changes neither what the session
\* sees nor what is committed, and returns that row.
C29_FirstWriterWins ==
    [][/\ (Acquired /\ hashid(last') # None) =>
             (hashid(last') \in DOMAIN cache'
              /\ cache'[hashid(last')].key = <<hashid(last')>>)
       /\ (Acquired /\ hashid(last') \in DOMAIN cache \ {None}) =>
             /\ session'.db = session.db /\ db' = db
             /\ cache' = cache
             /\ trace' = Append(trace, Event("hit", cache[hashid(last')]))
       /\ ~Replaced =>
             \A h \in DOMAIN cache : h \in DOMAIN cache' /\ cache'[h] = cache[h]]_vars

\* C29's case: PA was acquired in one transaction; in a later one the same
\* Database was given PAc, of the same address and other content, first: the
\* call was a hit and the paper row of PA is what the store holds.
C29_Witness ==
    /\ pc = "scope" /\ last = PAc
    /\ trace = <<Event("hit", Row("paper", <<"p1">>, 1, None))>>
    /\ Row("paper", <<"p1">>, 1, None) \in DOMAIN db
    /\ session.db = db
    /\ HasKey(db, "paper_author", <<"p1", "a1">>)

\* The step is one of a replay run: its start, a file opened, a line
\* applied, a file left, the exception, its end, or the process ending in it.
Replaying ==
    \/ pc \in {"replay_next", "replay", "replay_raise"}
    \/ pc' \in {"replay_next", "replay", "replay_raise"}

\* C30: Replay does not write history.  No step of a replay run, of one that
\* ends well or of one that fails, changes the content of a history file or
\* opens one for writing: the lines replay applies are not logged again, and
\* the history is after any number of runs what it was before them.
C30_ReplayWritesNoHistory ==
    /\ [][Replaying => (history' = history /\ io' = io)]_vars
    /\ [](nops > 0 => history = WrittenHistory)

\* C30's case: a first replay run applied the first file and committed PA;
\* a second run has met the line that does not parse; the history is as it
\* was written.
C30_Witness ==
    /\ pc = "replay_raise" /\ nops = 2
    /\ batch[idx - 1] = Garbage
    /\ HasKey(db, "paper", <<"p1">>)
    /\ HasKey(session.db, "paper", <<"p2">>)
    /\ history = WrittenHistory
    /\ io.opened = {}

\* The files at or below root of which every name below root, the names of
\* the directories on the way and the file's own, passes the bounds.
Selected(root, before, after) ==
    {f \in FilePaths :
        /\ Len(f) >= Len(root)
        /\ SubSeq(f, 1, Len(root)) = root
        /\ \A k \in (Len(root) + 1)..Len(f) : InRange(f[k], before, after)}

\* C31: Scope of the replay filter.  The files a replay call selects are the
\* files at or below the root whose every name below the root passes the
\* bounds, each once: the bounds apply to the entries of every expanded
\* directory, files and sub-directories alike, and not to the root.  So a
\* sub-directory failing a bound is pruned with every file below it, a name
\* starting with the bound string fails both `before` and `after`, and a
\* root that is a file is always replayed.
C31_FilterScope ==
    [][(pc = "idle" /\ pc' = "replay_next") =>
          /\ {files'[i] : i \in DOMAIN files'}
                = Selected(args'.root, args'.before, args'.after)
          /\ Len(files') = Cardinality(Selected(args'.root, args'.before,
                                                args'.after))]_vars

\* C31's case: replay of the root directory with before = "2" has selected
\* the two files of the root; the sub-directory "2" is pruned, and with it
\* its file "11", whose own name passes the bound.
C31_Witness ==
    /\ pc = "replay_next"
    /\ args.root = HistoryRoot /\ args.before = <<2>> /\ args.after = <<>>
    /\ files = <<HistoryRoot \o <<<<1, 1>>>>, HistoryRoot \o <<<<1, 2>>>>>>
    /\ InRange(<<1, 1>>, args.before, args.after)
    /\ ~InRange(<<2>>, args.before, args.after)

\* The address reached from a by n steps along the representatives.
RECURSIVE Walk(_, _, _)
Walk(rep, a, n) == IF n = 0 THEN a ELSE Walk(rep, Get(rep, a), n - 1)

\* Every value is a key, and the chain from every key reaches, within as
\* many steps as there are keys, an address mapped to itself.
Forest(rep) ==
    /\ \A i \in DOMAIN rep : rep[i][2] \in Keys(rep)
    /\ \A a \in Keys(rep) :
          LET r == Walk(rep, a, Len(rep))
          IN  r \in Keys(rep) /\ Get(rep, r) = r

\* The addresses whose representative in rep is r.
ClassOf(rep, r) == {x \in Addrs : follow(rep, x).res = r}

\* C32: Representative map is a forest.  After any sequence of equiv,
\* equiv_all, follow and groups calls every value of the map is a key and
\* every chain ends in an address mapped to itself, with no other cycle;
\* and equiv(a, b) makes the representative a had before the call the
\* representative of a, of b and of every member of their two classes.
C32_Forest ==
    /\ Forest(representatives)
    /\ \A a, b \in Addrs :
          LET after == equiv(representatives, a, b)
              ar == follow(representatives, a).res
              br == follow(representatives, b).res
          IN  /\ Forest(after)
              /\ \A x \in ClassOf(representatives, ar)
                          \cup ClassOf(representatives, br) \cup {a, b} :
                     follow(after, x).res = ar

\* C32's case: after equiv(2, 3) and then equiv(1, 2) the chain of 3 leads
\* to 1 through 2, and 1, the first argument of the later call, is mapped
\* to itself.
C32_Witness ==
    /\ representatives = <<<<2, 1>>, <<3, 2>>, <<1, 1>>>>
    /\ result = NoResult
    /\ declared = {{1, 2, 3}}

\* after holds the keys of rep and gives every address the representative
\* rep gives it.
SamePartition(rep, after) ==
    /\ Keys(after) = Keys(rep)
    /\ \A x \in Addrs : follow(after, x).res = follow(rep, x).res

\* Every key of rep is mapped to an address mapped to itself.
Direct(rep) == \A i \in DOMAIN rep : Get(rep, rep[i][2]) = rep[i][2]

\* C33: Lookups do not change the partition.  follow(a) and groups() may
\* rewrite the map but keep its keys and the representative of every
\* address; follow of an address never given to equiv returns that address
\* and leaves the map as it was; after groups() every address is mapped
\* directly to the representative of its class.
C33_LookupsKeepPartition ==
    /\ \A a \in Addrs :
          LET f == follow(representatives, a)
          IN  /\ SamePartition(representatives, f.rep)
              /\ a \notin UNION declared =>
                    (f.res = a /\ f.rep = representatives)
    /\ LET g == groups(representatives)
       IN  SamePartition(representatives, g.rep) /\ Direct(g.rep)
    /\ result.op = "groups" => Direct(representatives)

\* C33's case: groups() was called on a map whose keys were inserted in the
\* order 2, 3, 1; it returned the one class, and 2 and 3 are both mapped
\* directly to 1.
C33_Witness ==
    /\ result.op = "groups"
    /\ result.results = <<<<1, {1, 2, 3}>>>>
    /\ representatives = <<<<2, 1>>, <<3, 1>>, <<1, 1>>>>

\* u and v are one address but for the top bit of the first byte.
AgreeBelowTag(u, v) ==
    /\ Len(u) = Len(v)
    /\ u[1] % 128 = v[1] % 128
    /\ \A i \in 2..Len(u) : u[i] = v[i]

\* C35: Frame of tagging.  tag_uuid(u, s) has the length of u and differs
\* from u in at most the top bit of the first byte; tagging again with the
\* same status changes nothing; and two addresses are given the same tagged
\* address under a status exactly when they agree on every other bit.
C35_TagFrame ==
    /\ status # None => tag_uuid(uuid, status) = uuid
    /\ \A s \in Statuses :
          LET tagged == tag_uuid(uuid, s)
          IN  /\ AgreeBelowTag(uuid, tagged)
              /\ tagged[1] \in {uuid[1], uuid[1] + 128, uuid[1] - 128}
              /\ tag_uuid(tagged, s) = tagged
              /\ \A v \in Uuids :
                    tag_uuid(v, s) = tagged <=> AgreeBelowTag(uuid, v)

\* C35's case: a two-byte address has been tagged canonical: its first byte
\* is 129, as given by 1 and by 129, and its second byte is as it was.
C35_Witness ==
    /\ status = "canonical"
    /\ uuid = <<129, 255>>
    /\ tag_uuid(<<1, 255>>, status) = uuid

\* The positions inside a scope that holds its session.
InScope == pc \in {"scope", "scope_raise", "nested", "nested_raise"}

\* The positions of an enclosing scope after its inner scope was left.
Orphaned == pc \in {"orphan", "orphan_raise"}

\* acquire(x) called now, with no session, raises and leaves the rows and
\* the cache as they are.
FailsClean(x) ==
    LET s == acquire(St0, x)
    IN  ~s.ok /\ s.db = St0.db /\ s.cache = cache

\* C36: Transaction scope lifecycle.  self.session is a Session exactly
\* from a scope's __enter__ to the next __exit__; a step that closes the
\* session commits what the session saw; acquire of an entity that is not
\* cached, called with no session, raises and writes no row and no cache
\* entry; scopes do not nest: when an inner scope is left the enclosing
\* scope goes on with no session.
C36_ScopeLifecycle ==
    /\ [](session.open <=> InScope)
    /\ [](~session.open =>
             \A x \in Trees :
                 (hashid(x) = None \/ hashid(x) \notin DOMAIN cache)
                     => FailsClean(x))
    /\ [][/\ (~session.open /\ session'.open) => session'.db = db
          /\ (session.open /\ ~session'.open) => db' = session.db
          /\ (~session.open /\ ~session'.open) => (db' = db /\ cache' = cache)
          /\ (pc \in {"nested", "nested_raise"} /\ pc' # pc
                 /\ pc' \notin {"nested", "nested_raise"})
                => (Orphaned' /\ ~session'.open)]_vars

\* C36's case: the enclosing scope acquired PB, the inner scope acquired PA
\* and was left: PA is committed, the enclosing scope has no session, PB is
\* cached and not stored, and an acquire in the enclosing scope has raised.
C36_Witness ==
    /\ pc = "orphan"
    /\ ~session.open
    /\ HasKey(db, "paper", <<"p1">>)
    /\ "p2" \in DOMAIN cache /\ ~HasKey(db, "paper", <<"p2">>)
    /\ trace # <<>> /\ trace[Len(trace)] = Event("raise", NoneRow)
    /\ last = NoneRow

\* The set of classes groups() returns for the map rep.
ClassesOf(rep) == GroupSets(groups(rep).results)

\* C34: The partition does not depend on how equivalences are declared.
\* Two objects given the same set of pairs, in any order of the calls, in
\* either order of the two arguments, with calls repeated or not, return
\* the same set of classes from groups(); and an equiv(a, b) call made again
\* leaves the set of classes as it is.
C34_OrderIndependent ==
    /\ twin.done = twin.pairs =>
          ClassesOf(twin.rep) = ClassesOf(representatives)
    /\ \A a, b \in Addrs :
          {a, b} \in twin.pairs =>
              ClassesOf(equiv(representatives, a, b))
                  = ClassesOf(representatives)
    /\ \A a, b \in Addrs :
          {a, b} \in twin.done =>
              ClassesOf(equiv(twin.rep, a, b)) = ClassesOf(twin.rep)

\* C34's case: the first object was given (1, 2) then (2, 3), the second
\* (3, 2) then (2, 1): the maps and the representatives differ, the one
\* class is the same.
C34_Witness ==
    /\ twin.pairs = {{1, 2}, {2, 3}} /\ twin.done = twin.pairs
    /\ representatives = <<<<1, 1>>, <<2, 1>>, <<3, 1>>>>
    /\ twin.rep = <<<<3, 3>>, <<2, 3>>, <<1, 3>>>>
    /\ ClassesOf(twin.rep) = {{1, 2, 3}}

\* The refiners registered for the types of the links, one entry per link
\* and refiner.
ApplicableTo(links) ==
    UNION {{[priority |-> refiners[links[i]][j][1],
             link |-> <<links[i], i>>,
             refiner |-> refiners[links[i]][j][2]] :
               j \in DOMAIN refiners[links[i]]} :
           i \in {k \in DOMAIN links : links[k] \in DOMAIN refiners}}

\* C37: Refiner selection.  Refiner.query calls the refiners applicable to
\* the links of the paper in descending order of priority, each at most
\* once; it yields at most one result, that of the first refiner that
\* returns a true value without raising; a refiner that raises or returns
\* nothing is followed by the next one; no refiner is called after one has
\* succeeded, and when none succeeds every applicable refiner was called.
C37_RefinerSelection ==
    /\ [](rf.pc \in {"run", "yielded", "done"} =>
            /\ {rf.queue[i] : i \in DOMAIN rf.queue} = ApplicableTo(rf.links)
            /\ Len(rf.queue) = Cardinality(ApplicableTo(rf.links))
            /\ \A i, j \in DOMAIN rf.queue :
                  i < j => rf.queue[i].priority >= rf.queue[j].priority
            /\ Len(rf.ran) <= Len(rf.queue)
            /\ \A i \in DOMAIN rf.ran : rf.ran[i].refiner = rf.queue[i]
            /\ \A i \in DOMAIN rf.ran :
                  i < Len(rf.ran) => rf.ran[i].outcome # "result"
            /\ Len(rf.yielded) <= 1
            /\ rf.yielded # <<>> <=>
                  (rf.ran # <<>> /\ rf.ran[Len(rf.ran)].outcome = "result")
            /\ rf.yielded # <<>> =>
                  rf.yielded[1] = rf.ran[Len(rf.ran)].refiner
            /\ (rf.pc = "done" /\ rf.yielded = <<>>) =>
                  Len(rf.ran) = Len(rf.queue))
    /\ [][rf.yielded # <<>> => (rf'.ran = rf.ran /\ rf'.yielded = rf.yielded)]_vars

\* C37's case: the paper has a pmc link and a doi link; the refiner of
\* priority 190 raised, that of priority 110 returned nothing, that of
\* priority 100 returned a paper, which was yielded; the generator has
\* returned without calling the two refiners of priority 90.
C37_Witness ==
    /\ rf.pc = "done"
    /\ rf.links = <<"pmc", "doi">>
    /\ Len(rf.queue) = 5 /\ Len(rf.ran) = 3
    /\ rf.ran[1].refiner.priority = 190 /\ rf.ran[1].outcome = "raise"
    /\ rf.ran[2].refiner.priority = 110 /\ rf.ran[2].outcome = "none"
    /\ rf.ran[3].refiner.priority = 100 /\ rf.ran[3].outcome = "result"
    /\ rf.yielded = <<rf.queue[3]>>

\* The places, block and position, at which the paper id was sent.
SentAt(id) ==
    {<<b, j>> \in (DOMAIN up.blocks) \X (1..(MaxFound + 1)) :
        j \in DOMAIN up.blocks[b].papers /\ up.blocks[b].papers[j].id = id}

\* C38: Block-wise upload.  Every block sent holds at most block_size
\* papers; the papers taken from the search results are the first ones in
\* order and each was given to export; a paper whose export succeeded is in
\* one block and no more; and when the loop has ended every paper found
\* whose export succeeds is in a block, those after a block of failures too.
C38_BlockwiseUpload ==
    /\ \A b \in DOMAIN up.blocks :
          Len(up.blocks[b].papers) <= up.block_size
    /\ up.tried = [j \in 1..Len(up.tried) |-> j]
    /\ Len(up.tried) + Len(up.papers) = Len(up.found)
    /\ \A id \in DOMAIN up.found :
          /\ Cardinality(SentAt(id)) <= 1
          /\ (id <= Len(up.tried) /\ up.found[id])
                => Cardinality(SentAt(id)) = 1
    /\ up.pc = "done" =>
          \A id \in DOMAIN up.found :
              up.found[id] => Cardinality(SentAt(id)) = 1

====
